---- MODULE Spec2Model ----
(***************************************************************************)
(* TodoWidget: the in-memory task list (TaskModel), its category filter,   *)
(* its reordering and sorting, and the controller's moveTask with the      *)
(* task table of the database behind it.                                   *)
(*                                                                         *)
(* Rows are 0-based as in the source; TLA+ sequences are 1-based, so row r *)
(* of a list s is s[r + 1].                                                *)
(***************************************************************************)
EXTENDS Integers, Sequences, FiniteSets, TLC

(***************************************************************************)
(* Bounds of the model.                                                    *)
(***************************************************************************)
MaxTasks == 3
MaxDue == 2
MaxPriority == 3
TicksPerSecond == 2

(* Program constants. *)
DefaultPriority == 3
UnsetDisplayOrder == -1

MaxOrder == MaxTasks
Ids == 1..MaxTasks
Categories == {"X", "Y"}
NoCategory == ""
InvalidDate == 0
DueDates == 0..MaxDue
Priorities == 1..MaxPriority

VARIABLES
    m_tasks,          \* TaskModel::m_tasks, the authoritative list
    m_filteredTasks,  \* TaskModel::m_filteredTasks, value copies of the matching tasks
    m_isFiltered,     \* TaskModel::m_isFiltered
    db_tasks,         \* rows of the tasks table, in rowid order
    m_initialized,    \* DatabaseManager::m_initialized
    process,          \* "running", "aborted" (a failed Q_ASSERT ended it) or
                      \* "undefined" (it ran into undefined behaviour and went on)
    last,             \* the last call: its name, arguments and return value
    hist,             \* the calls just before the last one, where a sequence of
                      \* calls is followed (see HistAfter)
    filterArg,        \* the categoryId of the last filterByCategory call (the
                      \* model itself does not keep it)
    now,              \* the clock, QDateTime::currentDateTime()
    m_projects,       \* ProjectModel::m_projects, the ids of the projects
    m_timerActive,    \* TimeTrackingController::m_timer->isActive()
    m_currentProjectId, \* TimeTrackingController::m_currentProjectId
    m_startTime,      \* TimeTrackingController::m_startTime
    m_timeEntries,    \* TimeEntryModel::m_timeEntries
    db_timeEntries,   \* rows of the time_entries table
    m_trayIcon,       \* NotificationController::m_trayIcon is not null
    m_enableNotifications, \* SettingsManager::m_enableNotifications
    m_checkTimerActive, \* NotificationController::m_timer->isActive()
    m_notifiedTaskIds, \* NotificationController::m_notifiedTaskIds
    shown             \* the messages QSystemTrayIcon::showMessage was called with

tracking_vars == <<m_projects, m_timerActive, m_currentProjectId, m_startTime, m_timeEntries,
                   db_timeEntries>>

notification_vars == <<m_trayIcon, m_enableNotifications, m_checkTimerActive,
                       m_notifiedTaskIds, shown>>

vars == <<m_tasks, m_filteredTasks, m_isFiltered, db_tasks, m_initialized, process, last,
          hist, filterArg, now, tracking_vars, notification_vars>>

model_vars == <<m_tasks, m_filteredTasks, m_isFiltered>>

(***************************************************************************)
(* Task: the fields of the record that the list operations read or write.  *)
(* dueDate = InvalidDate is QDateTime's invalid (unset) value.  A valid    *)
(* QDateTime is a number of clock ticks, TicksPerSecond of them to the     *)
(* second (QDateTime counts milliseconds).  The constructor sets           *)
(* createdDate to the current time; CreatedOnSecond stands for it where    *)
(* the time of creation plays no part.  The tasks of the model have the    *)
(* title SomeTitle and no description until an update gives them others.   *)
(***************************************************************************)
CreatedOnSecond == TicksPerSecond

SomeTitle == "title"
NoTitle == ""
NoDescription == ""

Task(id, categoryId, dueDate, priority) ==
    [id |-> id, title |-> SomeTitle, description |-> NoDescription,
     categoryId |-> categoryId, dueDate |-> dueDate,
     priority |-> priority, isCompleted |-> FALSE,
     createdDate |-> CreatedOnSecond,
     displayOrder |-> UnsetDisplayOrder]

IsValidDate(d) == d # InvalidDate

(* x, y: integer arguments (an id, rows); c: a categoryId argument. *)
(* dbCalls: the calls the handler made to the DatabaseManager.            *)
(* tasks: a task list argument or return value.                            *)
(* dbRet: what the DatabaseManager returned to the handler, "none" when    *)
(* the handler made no call to it.                                         *)
Call(op, x, y, ret) ==
    [op |-> op, x |-> x, y |-> y, c |-> "", ret |-> ret, dbCalls |-> 0, tasks |-> <<>>,
     dbRet |-> "none"]

(***************************************************************************)
(* QList helpers.                                                          *)
(***************************************************************************)
RemoveAt(s, row) == SubSeq(s, 1, row) \o SubSeq(s, row + 2, Len(s))

InsertAt(s, row, x) == SubSeq(s, 1, row) \o <<x>> \o SubSeq(s, row + 1, Len(s))

(* QList::move taken for beginMoveRows, whose destination row counts the   *)
(* moved row: the element lands one row early when it moves down.          *)
QListMove_BeforeRow(s, from, to) ==
    InsertAt(RemoveAt(s, from), IF to > from THEN to - 1 ELSE to, s[from + 1])

(* QList::move(from, to) for 0 <= from, to < size. *)
QListMove(s, from, to) == InsertAt(RemoveAt(s, from), to, s[from + 1])

(* Row + 1 of the first element with this id, 0 when there is none. *)
FirstIndexOf(s, id) ==
    IF \E i \in 1..Len(s) : s[i].id = id
    THEN CHOOSE i \in 1..Len(s) : s[i].id = id /\ \A j \in 1..(i - 1) : s[j].id # id
    ELSE 0

IdsOf(s) == {s[i].id : i \in 1..Len(s)}

rowCount == IF m_isFiltered THEN Len(m_filteredTasks) ELSE Len(m_tasks)

ActiveList == IF m_isFiltered THEN m_filteredTasks ELSE m_tasks

(***************************************************************************)
(* TaskModel::updateDisplayOrders.  The active list is renumbered by       *)
(* position; with a filter active each filtered task's displayOrder is     *)
(* then copied to the first task of m_tasks with the same id.              *)
(***************************************************************************)
(* A renumbering that leaves every displayOrder as it is. *)
Renumber_Keeps(s) == s

Renumber(s) == [i \in 1..Len(s) |-> [s[i] EXCEPT !.displayOrder = i - 1]]

SetOrderById(tasks, id, order) ==
    LET j == FirstIndexOf(tasks, id)
    IN  IF j = 0 THEN tasks ELSE [tasks EXCEPT ![j].displayOrder = order]

RECURSIVE PropagateOrders(_, _)
PropagateOrders(tasks, filtered) ==
    IF filtered = <<>>
    THEN tasks
    ELSE PropagateOrders(SetOrderById(tasks, Head(filtered).id, Head(filtered).displayOrder),
                         Tail(filtered))

updateDisplayOrders(tasks, filtered, isFiltered) ==
    IF isFiltered
    THEN [tasks |-> PropagateOrders(tasks, Renumber(filtered)), filtered |-> Renumber(filtered)]
    ELSE [tasks |-> Renumber(tasks), filtered |-> filtered]

(* TaskModel::getNextDisplayOrder *)
getNextDisplayOrder(tasks) ==
    LET orders == {tasks[i].displayOrder : i \in 1..Len(tasks)} \cup {-1}
    IN  (CHOOSE m \in orders : \A o \in orders : o <= m) + 1

(***************************************************************************)
(* TaskModel::addTask.  The caller (TaskController::addTask) passes a      *)
(* freshly constructed Task, whose id is a new UUID.                       *)
(***************************************************************************)
FreshIds == Ids \ (IdsOf(m_tasks) \cup IdsOf(m_filteredTasks) \cup IdsOf(db_tasks))

(* A new UUID is equal to no id in use; the model takes the least unused   *)
(* number for it.                                                          *)
NewIds == IF FreshIds = {} THEN {} ELSE {CHOOSE id \in FreshIds : \A o \in FreshIds : id <= o}

addTask(task) ==
    LET newTask == [task EXCEPT !.displayOrder = getNextDisplayOrder(m_tasks)]
    IN  /\ process = "running"
        /\ Len(m_tasks) < MaxTasks
        /\ getNextDisplayOrder(m_tasks) <= MaxOrder
        /\ m_tasks' = Append(m_tasks, newTask)
        /\ m_filteredTasks' =
             IF /\ m_isFiltered
                /\ m_filteredTasks # <<>>
                /\ newTask.categoryId = m_filteredTasks[1].categoryId
             THEN Append(m_filteredTasks, newTask)
             ELSE m_filteredTasks
        /\ last' = Call("addTask", task.id, 0, "void")
        /\ UNCHANGED <<m_isFiltered, db_tasks, m_initialized, process>>

(***************************************************************************)
(* TaskModel::removeTask                                                   *)
(***************************************************************************)
(* removeTask without its inner loop over m_filteredTasks. *)
removeTask_MainListOnly(id) ==
    LET i == FirstIndexOf(m_tasks, id)
        upd == updateDisplayOrders(RemoveAt(m_tasks, i - 1), m_filteredTasks, m_isFiltered)
    IN  /\ process = "running"
        /\ IF i = 0
           THEN /\ last' = Call("removeTask", id, 0, "false")
                /\ UNCHANGED <<m_tasks, m_filteredTasks>>
           ELSE /\ m_tasks' = upd.tasks
                /\ m_filteredTasks' = upd.filtered
                /\ last' = Call("removeTask", id, 0, "true")
        /\ UNCHANGED <<m_isFiltered, db_tasks, m_initialized, process>>

removeTask(id) ==
    LET i == FirstIndexOf(m_tasks, id)
        j == FirstIndexOf(m_filteredTasks, id)
        filtered1 == IF m_isFiltered /\ j # 0
                     THEN RemoveAt(m_filteredTasks, j - 1) ELSE m_filteredTasks
        tasks1 == RemoveAt(m_tasks, i - 1)
        upd == updateDisplayOrders(tasks1, filtered1, m_isFiltered)
    IN  /\ process = "running"
        /\ IF i = 0
           THEN /\ last' = Call("removeTask", id, 0, "false")
                /\ UNCHANGED <<m_tasks, m_filteredTasks>>
           ELSE /\ m_tasks' = upd.tasks
                /\ m_filteredTasks' = upd.filtered
                /\ last' = Call("removeTask", id, 0, "true")
        /\ UNCHANGED <<m_isFiltered, db_tasks, m_initialized, process>>

(***************************************************************************)
(* TaskModel::setTasks                                                     *)
(***************************************************************************)
(* setTasks renumbering the tasks whatever their displayOrder values are. *)
setTasks_AlwaysRenumbers(tasks) ==
    /\ process = "running"
    /\ m_isFiltered' = FALSE
    /\ m_tasks' = updateDisplayOrders(tasks, m_filteredTasks, FALSE).tasks
    /\ last' = [Call("setTasks", Len(tasks), 0, "void") EXCEPT !.tasks = tasks]
    /\ UNCHANGED <<m_filteredTasks, db_tasks, m_initialized, process>>

setTasks(tasks) ==
    LET needsOrdering == \E i \in 1..Len(tasks) : tasks[i].displayOrder < 0
    IN  /\ process = "running"
        /\ m_isFiltered' = FALSE
        /\ m_tasks' = IF needsOrdering
                      THEN updateDisplayOrders(tasks, m_filteredTasks, FALSE).tasks
                      ELSE tasks
        /\ last' = [Call("setTasks", Len(tasks), 0, "void") EXCEPT !.tasks = tasks]
        /\ UNCHANGED <<m_filteredTasks, db_tasks, m_initialized, process>>

(***************************************************************************)
(* TaskModel::filterByCategory and TaskModel::clearFilter                  *)
(***************************************************************************)
SelectCategory(tasks, categoryId) ==
    SelectSeq(tasks, LAMBDA t : t.categoryId = categoryId)

(* filterByCategory without m_filteredTasks.clear(): the matching tasks    *)
(* are appended to what the list held.                                     *)
filterByCategory_KeepsList(categoryId) ==
    /\ process = "running"
    /\ IF categoryId = NoCategory
       THEN /\ m_isFiltered' = FALSE
            /\ UNCHANGED m_filteredTasks
       ELSE /\ m_filteredTasks' = m_filteredTasks \o SelectCategory(m_tasks, categoryId)
            /\ m_isFiltered' = TRUE
    /\ last' = [Call("filterByCategory", 0, 0, "void") EXCEPT !.c = categoryId]
    /\ UNCHANGED <<m_tasks, db_tasks, m_initialized, process>>

filterByCategory(categoryId) ==
    /\ process = "running"
    /\ IF categoryId = NoCategory
       THEN /\ m_isFiltered' = FALSE
            /\ UNCHANGED m_filteredTasks
       ELSE /\ m_filteredTasks' = SelectCategory(m_tasks, categoryId)
            /\ m_isFiltered' = TRUE
    /\ last' = [Call("filterByCategory", 0, 0, "void") EXCEPT !.c = categoryId]
    /\ UNCHANGED <<m_tasks, db_tasks, m_initialized, process>>

clearFilter ==
    /\ process = "running"
    /\ m_isFiltered' = FALSE
    /\ last' = Call("clearFilter", 0, 0, "void")
    /\ UNCHANGED <<m_tasks, m_filteredTasks, db_tasks, m_initialized, process>>

(***************************************************************************)
(* TaskModel::moveTask.  QList::move(from, to) is defined for to < size    *)
(* only.  moveTask lets toRow = rowCount through to it: a build with       *)
(* assertions ends the process at Q_ASSERT_X, a build without them shifts  *)
(* the elements after fromRow down by one, the slot one past the end       *)
(* included, so the last element becomes whatever that slot held: a stale  *)
(* copy of the last element (what removeAt leaves there) or memory that    *)
(* holds no task of the model (JunkTask).  What the process does after     *)
(* such a call is not defined by the code and is not followed.             *)
(***************************************************************************)
JunkTask == [id |-> 0, title |-> "", description |-> NoDescription,
             categoryId |-> NoCategory, dueDate |-> InvalidDate,
             priority |-> DefaultPriority, isCompleted |-> FALSE,
             createdDate |-> InvalidDate,
             displayOrder |-> UnsetDisplayOrder]

StaleTasks(s) == {JunkTask, s[Len(s)]}

MovedLists(s, fromRow, toRow) ==
    IF toRow < Len(s)
    THEN {QListMove(s, fromRow, toRow)}
    ELSE {Append(RemoveAt(s, fromRow), g) : g \in StaleTasks(s)}

moveTaskRejected(fromRow, toRow) ==
    /\ process = "running"
    /\ \/ fromRow < 0 \/ fromRow >= rowCount
       \/ toRow < 0 \/ toRow > rowCount
    /\ last' = Call("moveTask", fromRow, toRow, "false")
    /\ UNCHANGED <<m_tasks, m_filteredTasks, m_isFiltered, db_tasks, m_initialized, process>>

moveTaskSameRow(fromRow, toRow) ==
    /\ process = "running"
    /\ fromRow >= 0 /\ fromRow < rowCount
    /\ toRow >= 0 /\ toRow <= rowCount
    /\ fromRow = toRow
    /\ last' = Call("moveTask", fromRow, toRow, "true")
    /\ UNCHANGED <<m_tasks, m_filteredTasks, m_isFiltered, db_tasks, m_initialized, process>>

moveTaskOutcomes(fromRow, toRow) ==
    {LET tasks1 == IF m_isFiltered THEN m_tasks ELSE moved
         filtered1 == IF m_isFiltered THEN moved ELSE m_filteredTasks
         upd == updateDisplayOrders(tasks1, filtered1, m_isFiltered)
     IN  [tasks |-> IF m_isFiltered
                    THEN PropagateOrders(upd.tasks, upd.filtered)
                    ELSE upd.tasks,
          filtered |-> upd.filtered] :
       moved \in MovedLists(ActiveList, fromRow, toRow)}

moveTaskMoved(fromRow, toRow) ==
    /\ process = "running"
    /\ fromRow >= 0 /\ fromRow < rowCount
    /\ toRow >= 0 /\ toRow <= rowCount
    /\ fromRow # toRow
    /\ \E r \in moveTaskOutcomes(fromRow, toRow) :
         /\ m_tasks' = r.tasks
         /\ m_filteredTasks' = r.filtered
    /\ process' = IF toRow = rowCount THEN "undefined" ELSE "running"
    /\ last' = Call("moveTask", fromRow, toRow, "true")
    /\ UNCHANGED <<m_isFiltered, db_tasks, m_initialized>>

moveTaskAborted(fromRow, toRow) ==
    /\ process = "running"
    /\ fromRow >= 0 /\ fromRow < rowCount
    /\ toRow = rowCount
    /\ fromRow # toRow
    /\ process' = "aborted"
    /\ last' = Call("moveTask", fromRow, toRow, "none")
    /\ UNCHANGED <<m_tasks, m_filteredTasks, m_isFiltered, db_tasks, m_initialized>>

moveTask(fromRow, toRow) ==
    \/ moveTaskRejected(fromRow, toRow)
    \/ moveTaskSameRow(fromRow, toRow)
    \/ moveTaskMoved(fromRow, toRow)
    \/ moveTaskAborted(fromRow, toRow)

(***************************************************************************)
(* TaskModel::sortByDueDate and TaskModel::sortByPriority.  std::sort is   *)
(* not stable: it may leave the list in any order in which no element is   *)
(* less, by the comparator, than an element before it.                     *)
(***************************************************************************)
(* The comparator without the three tests for unset due dates. *)
dueDateLess_ByValue(a, b, ascending) ==
    IF ascending THEN a.dueDate < b.dueDate ELSE a.dueDate > b.dueDate

dueDateLess(a, b, ascending) ==
    IF ~IsValidDate(a.dueDate) /\ IsValidDate(b.dueDate) THEN FALSE
    ELSE IF IsValidDate(a.dueDate) /\ ~IsValidDate(b.dueDate) THEN TRUE
    ELSE IF ~IsValidDate(a.dueDate) /\ ~IsValidDate(b.dueDate) THEN FALSE
    ELSE IF ascending THEN a.dueDate < b.dueDate ELSE a.dueDate > b.dueDate

(* The comparator taken as ascending whatever the argument says. *)
priorityLess_Ascending(a, b, ascending) == a.priority < b.priority

priorityLess(a, b, ascending) ==
    IF ascending THEN a.priority < b.priority ELSE a.priority > b.priority

Rearrangements(s) == {[i \in 1..Len(s) |-> s[p[i]]] : p \in Permutations(1..Len(s))}

sortLess(name, a, b, ascending) ==
    IF name = "sortByDueDate" THEN dueDateLess(a, b, ascending)
    ELSE priorityLess(a, b, ascending)

StdSort(s, name, ascending) ==
    {t \in Rearrangements(s) :
        \A i, j \in 1..Len(t) : i < j => ~sortLess(name, t[j], t[i], ascending)}

(* A sort that sorts m_tasks as well while a filter is on. *)
SortActive_BothLists(name, ascending) ==
    /\ process = "running"
    /\ \E sorted \in StdSort(ActiveList, name, ascending),
          sortedTasks \in StdSort(m_tasks, name, ascending) :
         LET upd == updateDisplayOrders(sortedTasks, sorted, m_isFiltered)
         IN  /\ m_tasks' = upd.tasks
             /\ m_filteredTasks' = IF m_isFiltered THEN upd.filtered ELSE m_filteredTasks
    /\ last' = Call(name, IF ascending THEN 1 ELSE 0, 0, "void")
    /\ UNCHANGED <<m_isFiltered, db_tasks, m_initialized, process>>

SortActive(name, ascending) ==
    /\ process = "running"
    /\ \E sorted \in StdSort(ActiveList, name, ascending) :
         LET tasks1 == IF m_isFiltered THEN m_tasks ELSE sorted
             filtered1 == IF m_isFiltered THEN sorted ELSE m_filteredTasks
             upd == updateDisplayOrders(tasks1, filtered1, m_isFiltered)
         IN  /\ m_tasks' = upd.tasks
             /\ m_filteredTasks' = upd.filtered
    /\ last' = Call(name, IF ascending THEN 1 ELSE 0, 0, "void")
    /\ UNCHANGED <<m_isFiltered, db_tasks, m_initialized, process>>

sortByDueDate(ascending) == SortActive("sortByDueDate", ascending)

sortByPriority(ascending) == SortActive("sortByPriority", ascending)

(***************************************************************************)
(* TaskModel::setData, for the roles whose fields the model keeps.  The    *)
(* index is one the caller got from the model, so its row is in range.     *)
(***************************************************************************)
Roles == {"TitleRole", "DescriptionRole", "CompletedRole", "DueDateRole", "CategoryIdRole",
          "PriorityRole", "DisplayOrderRole"}

WithRole(task, role, value) ==
    CASE role = "TitleRole"        -> [task EXCEPT !.title = value]
      [] role = "DescriptionRole"  -> [task EXCEPT !.description = value]
      [] role = "CompletedRole"    -> [task EXCEPT !.isCompleted = value]
      [] role = "DueDateRole"      -> [task EXCEPT !.dueDate = value]
      [] role = "CategoryIdRole"   -> [task EXCEPT !.categoryId = value]
      [] role = "PriorityRole"     -> [task EXCEPT !.priority = value]
      [] role = "DisplayOrderRole" -> [task EXCEPT !.displayOrder = value]

(* The two lists after setData(row, value, role) on the lists given. *)
setDataOn(lists, row, value, role) ==
    LET active == IF m_isFiltered THEN lists.filtered ELSE lists.tasks
        task == WithRole(active[row + 1], role, value)
        j == FirstIndexOf(lists.tasks, task.id)
    IN  IF m_isFiltered
        THEN [filtered |-> [lists.filtered EXCEPT ![row + 1] = task],
              tasks |-> IF j = 0 THEN lists.tasks ELSE [lists.tasks EXCEPT ![j] = task]]
        ELSE [filtered |-> lists.filtered,
              tasks |-> [lists.tasks EXCEPT ![row + 1] = task]]

setData(row, value, role) ==
    LET set == setDataOn([tasks |-> m_tasks, filtered |-> m_filteredTasks], row, value, role)
    IN  /\ process = "running"
        /\ row >= 0 /\ row < rowCount
        /\ m_tasks' = set.tasks
        /\ m_filteredTasks' = set.filtered
        /\ last' = [Call("setData", row, 0, "true") EXCEPT !.c = role]
        /\ UNCHANGED <<m_isFiltered, db_tasks, m_initialized, process>>

(***************************************************************************)
(* DatabaseManager.  A row of the tasks table holds what saveTasks and     *)
(* saveTask bind: completed as 1 or 0, the dates as text in Qt::ISODate    *)
(* format, which has seconds and no fraction of a second, an invalid date  *)
(* as the empty text.  A text is modelled as a sequence: <<>> is the empty *)
(* text, <<n>> the ISO text of second n.  db_tasks holds the rows in the   *)
(* order of their rowids, which is the order a SELECT without ORDER BY     *)
(* reads the table in.                                                     *)
(***************************************************************************)
DatabaseManager_initialize(ok) ==
    /\ process = "running"
    /\ m_initialized' = (m_initialized \/ ok)
    /\ last' = Call("initialize", 0, 0, IF m_initialized \/ ok THEN "true" ELSE "false")
    /\ UNCHANGED <<m_tasks, m_filteredTasks, m_isFiltered, db_tasks, process>>

(* QDateTime::toString(Qt::ISODate) *)
toISODate(d) == IF IsValidDate(d) THEN <<d \div TicksPerSecond>> ELSE <<>>

(* QDateTime::fromString(text, Qt::ISODate) *)
fromISODate(text) == IF text = <<>> THEN InvalidDate ELSE text[1] * TicksPerSecond

(* The values saveTasks and saveTask bind for a task. *)
TaskToRow(task) ==
    [id |-> task.id,
     title |-> task.title,
     description |-> task.description,
     completed |-> IF task.isCompleted THEN 1 ELSE 0,
     created_date |-> toISODate(task.createdDate),
     due_date |-> IF IsValidDate(task.dueDate) THEN toISODate(task.dueDate) ELSE <<>>,
     category_id |-> task.categoryId,
     priority |-> task.priority,
     display_order |-> task.displayOrder]

(* The Task loadTasks builds from a row. *)
RowToTask(row) ==
    [id |-> row.id,
     title |-> row.title,
     description |-> row.description,
     categoryId |-> row.category_id,
     dueDate |-> IF row.due_date # <<>> THEN fromISODate(row.due_date) ELSE InvalidDate,
     priority |-> row.priority,
     isCompleted |-> (row.completed # 0),
     createdDate |-> fromISODate(row.created_date),
     displayOrder |-> row.display_order]

HasRepeatedId(tasks) ==
    \E i, j \in 1..Len(tasks) : i # j /\ tasks[i].id = tasks[j].id

(* The statements of saveTasks(tasks), numbered: 1 is DELETE FROM tasks,   *)
(* 1 + k the INSERT of tasks[k], Len(tasks) + 2 the COMMIT.  failAt is the *)
(* statement SQLite fails (disk, lock), 0 when it fails none.              *)
FailPoints(n) == 0..(n + 2)

(* The rows after the INSERTs of tasks[k], tasks[k + 1], ... up to the     *)
(* first that fails: the one numbered failAt, or one whose id is in the    *)
(* table already (id is the PRIMARY KEY).                                  *)
RECURSIVE InsertTasks(_, _, _, _)
InsertTasks(rows, tasks, k, failAt) ==
    IF k > Len(tasks) THEN [ok |-> TRUE, rows |-> rows]
    ELSE IF failAt = k + 1 \/ tasks[k].id \in IdsOf(rows) THEN [ok |-> FALSE, rows |-> rows]
    ELSE InsertTasks(Append(rows, TaskToRow(tasks[k])), tasks, k + 1, failAt)

(* saveTasks whose rollback after a failed INSERT restores nothing. *)
saveTasks_NoRollback(tasks, failAt) ==
    IF ~m_initialized THEN [ok |-> FALSE, rows |-> db_tasks]
    ELSE IF failAt = 1 THEN [ok |-> FALSE, rows |-> db_tasks]
    ELSE LET inserted == InsertTasks(<<>>, tasks, 1, failAt)
         IN  IF ~inserted.ok THEN [ok |-> FALSE, rows |-> inserted.rows]
             ELSE IF failAt = Len(tasks) + 2 THEN [ok |-> FALSE, rows |-> db_tasks]
             ELSE [ok |-> TRUE, rows |-> inserted.rows]

(* DatabaseManager::saveTasks: its return value and the rows of the table  *)
(* after it.  The rows a rolled back or uncommitted transaction leaves are *)
(* the rows before it.                                                     *)
saveTasks(tasks, failAt) ==
    IF ~m_initialized THEN [ok |-> FALSE, rows |-> db_tasks]
    ELSE IF failAt = 1 THEN [ok |-> FALSE, rows |-> db_tasks]
    ELSE LET inserted == InsertTasks(<<>>, tasks, 1, failAt)
         IN  IF ~inserted.ok THEN [ok |-> FALSE, rows |-> db_tasks]
             ELSE IF failAt = Len(tasks) + 2 THEN [ok |-> FALSE, rows |-> db_tasks]
             ELSE [ok |-> TRUE, rows |-> inserted.rows]

(* loadTasks without its test of m_initialized. *)
loadTasks_Unchecked == [i \in 1..Len(db_tasks) |-> RowToTask(db_tasks[i])]

(* DatabaseManager::loadTasks *)
loadTasks ==
    IF ~m_initialized THEN <<>>
    ELSE [i \in 1..Len(db_tasks) |-> RowToTask(db_tasks[i])]

WithoutRow(rows, id) == SelectSeq(rows, LAMBDA r : r.id # id)

(* DatabaseManager::saveTask: INSERT OR REPLACE deletes the row with this  *)
(* id, if there is one, and inserts the new row with the next rowid.       *)
saveTask(task, sqlOk) ==
    IF ~m_initialized THEN [ok |-> FALSE, rows |-> db_tasks]
    ELSE IF ~sqlOk THEN [ok |-> FALSE, rows |-> db_tasks]
    ELSE [ok |-> TRUE, rows |-> Append(WithoutRow(db_tasks, task.id), TaskToRow(task))]

(* DatabaseManager::deleteTask *)
deleteTask(id, sqlOk) ==
    IF ~m_initialized THEN [ok |-> FALSE, rows |-> db_tasks]
    ELSE IF ~sqlOk THEN [ok |-> FALSE, rows |-> db_tasks]
    ELSE [ok |-> TRUE, rows |-> WithoutRow(db_tasks, id)]

BoolText(b) == IF b THEN "true" ELSE "false"

(* The calls on the DatabaseManager as actions. *)
DatabaseManager_saveTasks(tasks, failAt) ==
    LET saved == saveTasks(tasks, failAt)
    IN  /\ process = "running"
        /\ db_tasks' = saved.rows
        /\ last' = [Call("saveTasks", 0, 0, BoolText(saved.ok))
                      EXCEPT !.tasks = tasks, !.dbCalls = 1]
        /\ UNCHANGED <<m_tasks, m_filteredTasks, m_isFiltered, m_initialized, process>>

DatabaseManager_loadTasks ==
    /\ process = "running"
    /\ last' = [Call("loadTasks", 0, 0, "list") EXCEPT !.tasks = loadTasks, !.dbCalls = 1]
    /\ UNCHANGED <<m_tasks, m_filteredTasks, m_isFiltered, db_tasks, m_initialized, process>>

DatabaseManager_saveTask(task, sqlOk) ==
    LET saved == saveTask(task, sqlOk)
    IN  /\ process = "running"
        /\ db_tasks' = saved.rows
        /\ last' = [Call("saveTask", task.id, 0, BoolText(saved.ok))
                      EXCEPT !.tasks = <<task>>, !.dbCalls = 1]
        /\ UNCHANGED <<m_tasks, m_filteredTasks, m_isFiltered, m_initialized, process>>

DatabaseManager_deleteTask(id, sqlOk) ==
    LET deleted == deleteTask(id, sqlOk)
    IN  /\ process = "running"
        /\ db_tasks' = deleted.rows
        /\ last' = [Call("deleteTask", id, 0, BoolText(deleted.ok)) EXCEPT !.dbCalls = 1]
        /\ UNCHANGED <<m_tasks, m_filteredTasks, m_isFiltered, m_initialized, process>>

(***************************************************************************)
(* TaskController::moveTask                                                *)
(***************************************************************************)
TaskController_moveTaskRejected(fromRow, toRow) ==
    /\ process = "running"
    /\ \/ fromRow < 0 \/ fromRow >= rowCount
       \/ toRow < 0 \/ toRow > rowCount
    /\ last' = Call("TaskController::moveTask", fromRow, toRow, "false")
    /\ UNCHANGED <<m_tasks, m_filteredTasks, m_isFiltered, db_tasks, m_initialized, process>>

(* moveTask without its early return for fromRow = toRow: it goes on to    *)
(* saveTasks.                                                              *)
TaskController_moveTaskSameRow_Saves(fromRow, toRow) ==
    /\ process = "running"
    /\ fromRow >= 0 /\ fromRow < rowCount
    /\ toRow >= 0 /\ toRow <= rowCount
    /\ fromRow = toRow
    /\ db_tasks' = saveTasks(m_tasks, 0).rows
    /\ last' = [Call("TaskController::moveTask", fromRow, toRow,
                     IF saveTasks(m_tasks, 0).ok THEN "true" ELSE "false")
                  EXCEPT !.dbCalls = 1, !.dbRet = BoolText(saveTasks(m_tasks, 0).ok)]
    /\ UNCHANGED <<m_tasks, m_filteredTasks, m_isFiltered, m_initialized, process>>

TaskController_moveTaskSameRow(fromRow, toRow) ==
    /\ process = "running"
    /\ fromRow >= 0 /\ fromRow < rowCount
    /\ toRow >= 0 /\ toRow <= rowCount
    /\ fromRow = toRow
    /\ last' = Call("TaskController::moveTask", fromRow, toRow, "true")
    /\ UNCHANGED <<m_tasks, m_filteredTasks, m_isFiltered, db_tasks, m_initialized, process>>

(* moveTask saving the moved task alone, with saveTask. *)
TaskController_moveTaskSaved_OneTask(fromRow, toRow, failAt) ==
    /\ process = "running"
    /\ fromRow >= 0 /\ fromRow < rowCount
    /\ toRow >= 0 /\ toRow <= rowCount
    /\ fromRow # toRow
    /\ \E r \in moveTaskOutcomes(fromRow, toRow) :
         LET k == FirstIndexOf(r.tasks, ActiveList[fromRow + 1].id)
             moved == r.tasks[IF k = 0 THEN Len(r.tasks) ELSE k]
             saved == saveTask(moved, failAt = 0)
         IN  /\ m_tasks' = r.tasks
             /\ m_filteredTasks' = r.filtered
             /\ db_tasks' = saved.rows
             /\ last' = [Call("TaskController::moveTask", fromRow, toRow, BoolText(saved.ok))
                           EXCEPT !.dbCalls = 1, !.dbRet = BoolText(saved.ok)]
    /\ process' = IF toRow = rowCount THEN "undefined" ELSE "running"
    /\ UNCHANGED <<m_isFiltered, m_initialized>>

TaskController_moveTaskSaved(fromRow, toRow, failAt) ==
    /\ process = "running"
    /\ fromRow >= 0 /\ fromRow < rowCount
    /\ toRow >= 0 /\ toRow <= rowCount
    /\ fromRow # toRow
    /\ \E r \in moveTaskOutcomes(fromRow, toRow) :
         LET saved == saveTasks(r.tasks, failAt)
         IN  /\ m_tasks' = r.tasks
             /\ m_filteredTasks' = r.filtered
             /\ db_tasks' = saved.rows
             /\ last' = [Call("TaskController::moveTask", fromRow, toRow,
                              IF saved.ok THEN "true" ELSE "false")
                           EXCEPT !.dbCalls = 1, !.dbRet = BoolText(saved.ok)]
    /\ process' = IF toRow = rowCount THEN "undefined" ELSE "running"
    /\ UNCHANGED <<m_isFiltered, m_initialized>>

TaskController_moveTaskAborted(fromRow, toRow) ==
    /\ process = "running"
    /\ fromRow >= 0 /\ fromRow < rowCount
    /\ toRow = rowCount
    /\ process' = "aborted"
    /\ last' = Call("TaskController::moveTask", fromRow, toRow, "none")
    /\ UNCHANGED <<m_tasks, m_filteredTasks, m_isFiltered, db_tasks, m_initialized>>

TaskController_moveTask(fromRow, toRow, failAt) ==
    \/ TaskController_moveTaskRejected(fromRow, toRow)
    \/ TaskController_moveTaskSameRow(fromRow, toRow)
    \/ TaskController_moveTaskSaved(fromRow, toRow, failAt)
    \/ TaskController_moveTaskAborted(fromRow, toRow)

(***************************************************************************)
(* TaskController::addTask and TaskController::deleteTask.  The task that  *)
(* addTask saves is its own local Task, not the copy TaskModel::addTask    *)
(* made and gave a displayOrder.                                           *)
(***************************************************************************)
TaskController_addTask(title, categoryId, dueDate, priority, sqlOk) ==
    IF title = NoTitle
    THEN /\ process = "running"
         /\ last' = Call("TaskController::addTask", 0, 0, "false")
         /\ UNCHANGED <<m_tasks, m_filteredTasks, m_isFiltered, db_tasks, m_initialized,
                        process>>
    ELSE \E id \in NewIds :
           LET task == Task(id, categoryId, dueDate, priority)
               newTask == [task EXCEPT !.displayOrder = getNextDisplayOrder(m_tasks)]
               saved == saveTask(task, sqlOk)
           IN  /\ process = "running"
               /\ Len(m_tasks) < MaxTasks
               /\ getNextDisplayOrder(m_tasks) <= MaxOrder
               /\ m_tasks' = Append(m_tasks, newTask)
               /\ m_filteredTasks' =
                    IF /\ m_isFiltered
                       /\ m_filteredTasks # <<>>
                       /\ newTask.categoryId = m_filteredTasks[1].categoryId
                    THEN Append(m_filteredTasks, newTask)
                    ELSE m_filteredTasks
               /\ db_tasks' = saved.rows
               /\ last' = [Call("TaskController::addTask", id, 0, BoolText(saved.ok))
                             EXCEPT !.dbCalls = 1, !.dbRet = BoolText(saved.ok)]
               /\ UNCHANGED <<m_isFiltered, m_initialized, process>>

(* deleteTask deleting the row first and leaving the model alone when that *)
(* fails.                                                                  *)
TaskController_deleteTask_RowFirst(id, sqlOk) ==
    LET i == FirstIndexOf(m_tasks, id)
        j == FirstIndexOf(m_filteredTasks, id)
        filtered1 == IF m_isFiltered /\ j # 0
                     THEN RemoveAt(m_filteredTasks, j - 1) ELSE m_filteredTasks
        upd == updateDisplayOrders(RemoveAt(m_tasks, i - 1), filtered1, m_isFiltered)
        deleted == deleteTask(id, sqlOk)
    IN  /\ process = "running"
        /\ IF i = 0
           THEN /\ last' = Call("TaskController::deleteTask", id, 0, "false")
                /\ UNCHANGED <<m_tasks, m_filteredTasks, db_tasks>>
           ELSE /\ m_tasks' = IF deleted.ok THEN upd.tasks ELSE m_tasks
                /\ m_filteredTasks' = IF deleted.ok THEN upd.filtered ELSE m_filteredTasks
                /\ db_tasks' = deleted.rows
                /\ last' = [Call("TaskController::deleteTask", id, 0, BoolText(deleted.ok))
                              EXCEPT !.dbCalls = 1, !.dbRet = BoolText(deleted.ok)]
        /\ UNCHANGED <<m_isFiltered, m_initialized, process>>

TaskController_deleteTask(id, sqlOk) ==
    LET i == FirstIndexOf(m_tasks, id)
        j == FirstIndexOf(m_filteredTasks, id)
        filtered1 == IF m_isFiltered /\ j # 0
                     THEN RemoveAt(m_filteredTasks, j - 1) ELSE m_filteredTasks
        upd == updateDisplayOrders(RemoveAt(m_tasks, i - 1), filtered1, m_isFiltered)
        deleted == deleteTask(id, sqlOk)
    IN  /\ process = "running"
        /\ IF i = 0
           THEN /\ last' = Call("TaskController::deleteTask", id, 0, "false")
                /\ UNCHANGED <<m_tasks, m_filteredTasks, db_tasks>>
           ELSE /\ m_tasks' = upd.tasks
                /\ m_filteredTasks' = upd.filtered
                /\ db_tasks' = deleted.rows
                /\ last' = [Call("TaskController::deleteTask", id, 0, BoolText(deleted.ok))
                              EXCEPT !.dbCalls = 1, !.dbRet = BoolText(deleted.ok)]
        /\ UNCHANGED <<m_isFiltered, m_initialized, process>>

(***************************************************************************)
(* TaskController::updateTask and TaskController::toggleTaskCompletion.    *)
(* TaskModel::getTask returns Task() when m_tasks has no task with the id, *)
(* and Task() is a task with a new UUID for its id, no title, no category  *)
(* and the current time for its createdDate.  The controller takes the id  *)
(* of what getTask returned, changes that local Task, looks for the id     *)
(* among the rows of the displayed list, calls setData on the first row    *)
(* that has it, once for each field, and saves the local Task.             *)
(***************************************************************************)
NoId == 0

DefaultTask(id) == [Task(id, NoCategory, InvalidDate, DefaultPriority) EXCEPT !.title = NoTitle]

(* The UUID of a Task() made while looking for id: equal to no id in use   *)
(* and not to id; the model takes the least such number.                   *)
NewIdsBut(id) ==
    LET fresh == FreshIds \ {id}
    IN  IF fresh = {} THEN {} ELSE {CHOOSE n \in fresh : \A o \in fresh : n <= o}

getTask(id) ==
    IF FirstIndexOf(m_tasks, id) # 0
    THEN {m_tasks[FirstIndexOf(m_tasks, id)]}
    ELSE {DefaultTask(newId) : newId \in NewIdsBut(id)}

(* The rows of the displayed list, searched from row 0 for the id. *)
RowOfId(id) == FirstIndexOf(ActiveList, id) - 1

TaskController_refused(op, id) ==
    /\ process = "running"
    /\ last' = Call(op, id, 0, "false")
    /\ UNCHANGED <<m_tasks, m_filteredTasks, m_isFiltered, db_tasks, m_initialized, process>>

TaskController_saved(op, id, task, lists, sqlOk) ==
    LET saved == saveTask(task, sqlOk)
    IN  /\ process = "running"
        /\ m_tasks' = lists.tasks
        /\ m_filteredTasks' = lists.filtered
        /\ db_tasks' = saved.rows
        /\ last' = [Call(op, id, 0, BoolText(saved.ok))
                      EXCEPT !.dbCalls = 1, !.dbRet = BoolText(saved.ok)]
        /\ UNCHANGED <<m_isFiltered, m_initialized, process>>

TaskController_updateTask(id, title, categoryId, description, dueDate, priority, sqlOk) ==
    IF title = NoTitle
    THEN TaskController_refused("TaskController::updateTask", id)
    ELSE \E found \in getTask(id) :
           IF found.id = NoId
           THEN TaskController_refused("TaskController::updateTask", id)
           ELSE LET task == [found EXCEPT !.title = title, !.categoryId = categoryId,
                                          !.description = description, !.dueDate = dueDate,
                                          !.priority = priority]
                    row == RowOfId(id)
                    l0 == [tasks |-> m_tasks, filtered |-> m_filteredTasks]
                    l1 == setDataOn(l0, row, title, "TitleRole")
                    l2 == setDataOn(l1, row, description, "DescriptionRole")
                    l3 == setDataOn(l2, row, categoryId, "CategoryIdRole")
                    l4 == setDataOn(l3, row, dueDate, "DueDateRole")
                    l5 == setDataOn(l4, row, priority, "PriorityRole")
                IN  TaskController_saved("TaskController::updateTask", id, task,
                                         IF row < 0 THEN l0 ELSE l5, sqlOk)

TaskController_toggleTaskCompletion(id, sqlOk) ==
    \E found \in getTask(id) :
      IF found.id = NoId
      THEN TaskController_refused("TaskController::toggleTaskCompletion", id)
      ELSE LET task == [found EXCEPT !.isCompleted = ~found.isCompleted]
               row == RowOfId(id)
               l0 == [tasks |-> m_tasks, filtered |-> m_filteredTasks]
               l1 == setDataOn(l0, row, task.isCompleted, "CompletedRole")
           IN  TaskController_saved("TaskController::toggleTaskCompletion", id, task,
                                    IF row < 0 THEN l0 ELSE l1, sqlOk)

(***************************************************************************)
(* TaskController::deleteCompletedTasks: the ids of the completed tasks of *)
(* m_tasks are collected first, then deleteTask is called for each in      *)
(* turn, and the first call that returns false ends the loop.  failAt is   *)
(* the number of the DELETE statement that fails, 0 when none does.        *)
(***************************************************************************)
(* The ids collected ending with the first completed task. *)
CompletedIds_First(tasks) ==
    LET done == SelectSeq(tasks, LAMBDA t : t.isCompleted)
    IN  [i \in 1..(IF done = <<>> THEN 0 ELSE 1) |-> done[i].id]

CompletedIds(tasks) ==
    LET done == SelectSeq(tasks, LAMBDA t : t.isCompleted)
    IN  [i \in 1..Len(done) |-> done[i].id]

(* TaskController::deleteTask(id) as the k-th call of the loop, on the     *)
(* lists and rows st; st.ok is what it returns.                            *)
deleteTaskOn(st, id, k, failAt) ==
    LET i == FirstIndexOf(st.tasks, id)
        j == FirstIndexOf(st.filtered, id)
        filtered1 == IF m_isFiltered /\ j # 0
                     THEN RemoveAt(st.filtered, j - 1) ELSE st.filtered
        upd == updateDisplayOrders(RemoveAt(st.tasks, i - 1), filtered1, m_isFiltered)
        sqlOk == m_initialized /\ k # failAt
    IN  IF i = 0
        THEN [st EXCEPT !.ok = FALSE]
        ELSE [tasks |-> upd.tasks, filtered |-> upd.filtered,
              rows |-> IF sqlOk THEN WithoutRow(st.rows, id) ELSE st.rows,
              ok |-> sqlOk, calls |-> st.calls + 1]

RECURSIVE deleteEach(_, _, _, _)
deleteEach(st, ids, k, failAt) ==
    IF k > Len(ids) \/ ~st.ok
    THEN st
    ELSE deleteEach(deleteTaskOn(st, ids[k], k, failAt), ids, k + 1, failAt)

TaskController_deleteCompletedTasks(failAt) ==
    LET ids == CompletedIds(m_tasks)
        st == deleteEach([tasks |-> m_tasks, filtered |-> m_filteredTasks, rows |-> db_tasks,
                          ok |-> TRUE, calls |-> 0], ids, 1, failAt)
    IN  /\ process = "running"
        /\ m_tasks' = st.tasks
        /\ m_filteredTasks' = st.filtered
        /\ db_tasks' = st.rows
        /\ last' = [Call("TaskController::deleteCompletedTasks", Len(ids), 0, BoolText(st.ok))
                      EXCEPT !.dbCalls = st.calls]
        /\ UNCHANGED <<m_isFiltered, m_initialized, process>>

(***************************************************************************)
(* TimeTrackingController.  A project is its id; QDateTime::secsTo is the  *)
(* difference in milliseconds divided by 1000, a C++ division, which       *)
(* drops the fraction towards zero.  ProjectModel::getProject returns      *)
(* Project() when no project has the id, and Project() has a new UUID for  *)
(* its id.                                                                 *)
(***************************************************************************)
NoProject == ""
ProjectIds == {"p", "q"}
NewProjectUuid == "uuid"

secsTo(from, to) ==
    IF to >= from THEN (to - from) \div TicksPerSecond
    ELSE -((from - to) \div TicksPerSecond)

(* The id of the Project that ProjectController::getProject(id) returns. *)
getProject(id) ==
    IF \E i \in 1..Len(m_projects) : m_projects[i] = id THEN id ELSE NewProjectUuid

isTimerRunning == m_timerActive /\ m_currentProjectId # NoProject

TimeEntry(projectId, startTime, endTime, duration) ==
    [projectId |-> projectId, startTime |-> startTime, endTime |-> endTime,
     duration |-> duration]

(* DatabaseManager::saveTimeEntry; the entry has a new id, so INSERT OR    *)
(* REPLACE adds a row.                                                     *)
TimeEntryToRow(entry) ==
    [project_id |-> entry.projectId, start_time |-> toISODate(entry.startTime),
     end_time |-> IF IsValidDate(entry.endTime) THEN toISODate(entry.endTime) ELSE <<>>,
     duration |-> entry.duration]

saveTimeEntry(entry, sqlOk) ==
    IF ~m_initialized THEN [ok |-> FALSE, rows |-> db_timeEntries]
    ELSE IF ~sqlOk THEN [ok |-> FALSE, rows |-> db_timeEntries]
    ELSE [ok |-> TRUE, rows |-> Append(db_timeEntries, TimeEntryToRow(entry))]

(* The tracking state after stopTimer, st.ret what it returned.  The entry *)
(* goes to the front of the model's list (TimeEntryModel::addTimeEntry),   *)
(* and what saveTimeEntry returns is not looked at.                        *)
stopTimerOn(sqlOk) ==
    LET endTime == now
        duration == secsTo(m_startTime, endTime)
        entry == TimeEntry(m_currentProjectId, m_startTime, endTime, duration)
    IN  IF ~isTimerRunning
        THEN [ret |-> FALSE, active |-> m_timerActive, current |-> m_currentProjectId,
              start |-> m_startTime, entries |-> m_timeEntries, rows |-> db_timeEntries]
        ELSE [ret |-> TRUE, active |-> FALSE, current |-> NoProject, start |-> InvalidDate,
              entries |-> <<entry>> \o m_timeEntries,
              rows |-> saveTimeEntry(entry, sqlOk).rows]

TimeTrackingController_stopTimer(sqlOk) ==
    LET st == stopTimerOn(sqlOk)
    IN  /\ process = "running"
        /\ m_timerActive' = st.active
        /\ m_currentProjectId' = st.current
        /\ m_startTime' = st.start
        /\ m_timeEntries' = st.entries
        /\ db_timeEntries' = st.rows
        /\ last' = Call("stopTimer", 0, 0, BoolText(st.ret))
        /\ UNCHANGED m_projects

(* startTimer not stopping the timer that runs. *)
TimeTrackingController_startTimer_NoStop(projectId, sqlOk) ==
    LET st == stopTimerOn(sqlOk)
    IN  /\ process = "running"
        /\ UNCHANGED <<m_timeEntries, db_timeEntries>>
        /\ m_currentProjectId' = projectId
        /\ m_startTime' = now
        /\ m_timerActive' = TRUE
        /\ last' = [Call("startTimer", 0, 0, "true") EXCEPT !.c = projectId]
        /\ UNCHANGED m_projects

TimeTrackingController_startTimer(projectId, sqlOk) ==
    LET st == stopTimerOn(sqlOk)
    IN  /\ process = "running"
        /\ m_timeEntries' = st.entries
        /\ db_timeEntries' = st.rows
        /\ IF getProject(projectId) = NoProject
           THEN /\ m_currentProjectId' = st.current
                /\ m_startTime' = st.start
                /\ m_timerActive' = st.active
                /\ last' = [Call("startTimer", 0, 0, "false") EXCEPT !.c = projectId]
           ELSE /\ m_currentProjectId' = projectId
                /\ m_startTime' = now
                /\ m_timerActive' = TRUE
                /\ last' = [Call("startTimer", 0, 0, "true") EXCEPT !.c = projectId]
        /\ UNCHANGED m_projects

(* ProjectController::addProject, as far as the ProjectModel goes: a       *)
(* project with a new id is appended.                                      *)
ProjectController_addProject(id) ==
    /\ process = "running"
    /\ \A i \in 1..Len(m_projects) : m_projects[i] # id
    /\ m_projects' = Append(m_projects, id)
    /\ last' = [Call("addProject", 0, 0, "void") EXCEPT !.c = id]
    /\ UNCHANGED <<m_timerActive, m_currentProjectId, m_startTime, m_timeEntries,
                   db_timeEntries>>

(* Time passing: the clock moves on to a later instant. *)
ClockTick(t) ==
    /\ process = "running"
    /\ t > now
    /\ now' = t
    /\ last' = Call("clock", 0, 0, "void")
    /\ UNCHANGED <<m_tasks, m_filteredTasks, m_isFiltered, db_tasks, m_initialized, process,
                   hist, filterArg, tracking_vars, notification_vars>>

(* A call on the TimeTrackingController or the ProjectController. *)
Tracking(A) ==
    /\ A
    /\ UNCHANGED <<m_tasks, m_filteredTasks, m_isFiltered, db_tasks, m_initialized, process,
                   hist, filterArg, now, notification_vars>>

(***************************************************************************)
(* NotificationController.  m_notifiedTaskIds holds the id of a task for   *)
(* its "due soon" message and the id followed by "_overdue" for its        *)
(* "overdue" message; a key is modelled as the id and the suffix.          *)
(* checkForDueTasks goes through TaskModel::getTasks(), which is m_tasks,  *)
(* filter on or off.                                                       *)
(***************************************************************************)
DueSoonSecs == 3600

NotifiedKey(id, suffix) == [id |-> id, suffix |-> suffix]

Message(title, id) == [title |-> title, id |-> id]

(* The body of the loop for a task that shows the message and does not    *)
(* keep the key.                                                           *)
checkTask_Forgets(st, task) ==
    LET secsUntilDue == secsTo(now, task.dueDate)
    IN  IF task.isCompleted THEN st
        ELSE IF ~IsValidDate(task.dueDate) THEN st
        ELSE IF /\ secsUntilDue >= 0 /\ secsUntilDue <= DueSoonSecs
                /\ NotifiedKey(task.id, "") \notin st.notified
        THEN [st EXCEPT !.shown = Append(st.shown, Message("Task Due Soon", task.id))]
        ELSE IF secsUntilDue < 0 /\ NotifiedKey(task.id, "_overdue") \notin st.notified
        THEN [st EXCEPT !.shown = Append(st.shown, Message("Task Overdue", task.id))]
        ELSE st

(* The body of the loop of checkForDueTasks for one task. *)
checkTask(st, task) ==
    LET secsUntilDue == secsTo(now, task.dueDate)
    IN  IF task.isCompleted THEN st
        ELSE IF ~IsValidDate(task.dueDate) THEN st
        ELSE IF /\ secsUntilDue >= 0 /\ secsUntilDue <= DueSoonSecs
                /\ NotifiedKey(task.id, "") \notin st.notified
        THEN [shown |-> Append(st.shown, Message("Task Due Soon", task.id)),
              notified |-> st.notified \cup {NotifiedKey(task.id, "")}]
        ELSE IF secsUntilDue < 0 /\ NotifiedKey(task.id, "_overdue") \notin st.notified
        THEN [shown |-> Append(st.shown, Message("Task Overdue", task.id)),
              notified |-> st.notified \cup {NotifiedKey(task.id, "_overdue")}]
        ELSE st

RECURSIVE checkEach(_, _, _)
checkEach(st, tasks, k) ==
    IF k > Len(tasks) THEN st ELSE checkEach(checkTask(st, tasks[k]), tasks, k + 1)

checkForDueTasks ==
    LET st == checkEach([shown |-> shown, notified |-> m_notifiedTaskIds], m_tasks, 1)
    IN  /\ process = "running"
        /\ IF ~m_enableNotifications \/ ~m_trayIcon
           THEN UNCHANGED <<shown, m_notifiedTaskIds>>
           ELSE /\ shown' = st.shown
                /\ m_notifiedTaskIds' = st.notified
        /\ last' = Call("checkForDueTasks", 0, 0, "void")
        /\ UNCHANGED <<m_trayIcon, m_enableNotifications, m_checkTimerActive>>

(* The timer's timeout, every five minutes while the timer is active. *)
NotificationController_onTimerTimeout ==
    /\ m_checkTimerActive
    /\ checkForDueTasks

NotificationController_start ==
    /\ process = "running"
    /\ m_checkTimerActive' = (m_checkTimerActive \/ m_enableNotifications)
    /\ last' = Call("NotificationController::start", 0, 0, "void")
    /\ UNCHANGED <<m_trayIcon, m_enableNotifications, m_notifiedTaskIds, shown>>

NotificationController_stop ==
    /\ process = "running"
    /\ m_checkTimerActive' = FALSE
    /\ last' = Call("NotificationController::stop", 0, 0, "void")
    /\ UNCHANGED <<m_trayIcon, m_enableNotifications, m_notifiedTaskIds, shown>>

NotificationController_setTrayIcon(trayIcon) ==
    /\ process = "running"
    /\ m_trayIcon' = trayIcon
    /\ last' = Call("setTrayIcon", 0, 0, "void")
    /\ UNCHANGED <<m_enableNotifications, m_checkTimerActive, m_notifiedTaskIds, shown>>

SettingsManager_setEnableNotifications(value) ==
    /\ process = "running"
    /\ m_enableNotifications' = value
    /\ last' = Call("setEnableNotifications", 0, 0, "void")
    /\ UNCHANGED <<m_trayIcon, m_checkTimerActive, m_notifiedTaskIds, shown>>

(* A call on the NotificationController or the SettingsManager. *)
Notifying(A) ==
    /\ A
    /\ UNCHANGED <<m_tasks, m_filteredTasks, m_isFiltered, db_tasks, m_initialized, process,
                   hist, filterArg, now, tracking_vars>>

(***************************************************************************)
(* History for the properties that speak of two or three calls in a row:   *)
(*   filterByCategory(c); moveTask(a, b); clearFilter                      *)
(*   moveTask(a, b); moveTask(b, a)                                        *)
(* hist.calls are the calls of such a sequence made before the last call,  *)
(* hist.tasks and hist.active are m_tasks and the active list as they were *)
(* before its first moveTask.                                              *)
(***************************************************************************)
NoHist == [calls |-> <<>>, tasks |-> <<>>, active |-> <<>>]

IsMoved(call) ==
    call.op = "moveTask" /\ call.ret = "true" /\ call.x # call.y

IsFilterOn(call) ==
    call.op = "filterByCategory" /\ call.c # NoCategory

IsMoveBack(call) ==
    /\ IsMoved(last) /\ IsMoved(call)
    /\ call.x = last.y /\ call.y = last.x
    /\ \A k \in 1..Len(hist.calls) : hist.calls[k].op # "moveTask"

HistAfter(call) ==
    IF IsMoveBack(call)
    THEN [hist EXCEPT !.calls = <<last>>]
    ELSE IF IsMoved(call)
    THEN [calls |-> IF IsFilterOn(last) THEN <<last>> ELSE <<>>,
          tasks |-> m_tasks, active |-> ActiveList]
    ELSE IF call.op = "clearFilter" /\ IsMoved(last)
            /\ Len(hist.calls) = 1 /\ IsFilterOn(hist.calls[1])
    THEN [hist EXCEPT !.calls = Append(hist.calls, last)]
    ELSE NoHist

FilterArgAfter(call) == IF call.op = "filterByCategory" THEN call.c ELSE filterArg

Step(A) ==
    /\ A /\ hist' = HistAfter(last') /\ filterArg' = FilterArgAfter(last')
    /\ UNCHANGED <<now, tracking_vars, notification_vars>>

(* A call in a specification that follows no sequences of calls. *)
Single(A) ==
    /\ A /\ hist' = NoHist /\ filterArg' = FilterArgAfter(last')
    /\ UNCHANGED <<now, tracking_vars, notification_vars>>

(***************************************************************************)
(* The clock, the TimeTrackingController with the ProjectModel and the     *)
(* TimeEntryModel, and the NotificationController with the setting it      *)
(* reads, after construction.  The clock starts at the second the tasks    *)
(* of the model are created on.                                            *)
(***************************************************************************)
OthersInit ==
    /\ now = CreatedOnSecond
    /\ m_projects = <<>>
    /\ m_timerActive = FALSE
    /\ m_currentProjectId = NoProject
    /\ m_startTime = InvalidDate
    /\ m_timeEntries = <<>>
    /\ db_timeEntries = <<>>
    /\ m_trayIcon = FALSE
    /\ m_enableNotifications = TRUE
    /\ m_checkTimerActive = FALSE
    /\ m_notifiedTaskIds = {}
    /\ shown = <<>>

(***************************************************************************)
(* The model after construction, and the calls on it.                      *)
(***************************************************************************)
Init ==
    /\ m_tasks = <<>>
    /\ m_filteredTasks = <<>>
    /\ m_isFiltered = FALSE
    /\ db_tasks = <<>>
    /\ m_initialized = FALSE
    /\ process = "running"
    /\ last = Call("TaskModel", 0, 0, "void")
    /\ hist = NoHist
    /\ filterArg = NoCategory
    /\ OthersInit

(* The row pairs a caller passes: every row of the active list with every  *)
(* row up to rowCount, and pairs with one row just outside the range.      *)
MoveArgs ==
    ((0..(rowCount - 1)) \X (0..rowCount))
        \cup {<<0 - 1, 0>>, <<rowCount, 0>>, <<0, 0 - 1>>, <<0, rowCount + 1>>}

NewTasks(dueDates) ==
    {Task(id, c, d, DefaultPriority) : id \in NewIds, c \in Categories, d \in dueDates}

(* What TaskController::loadTasks passes to setTasks: rows of the tasks     *)
(* table, whose ids are distinct (id is the primary key) and whose         *)
(* display_order is whatever was stored, -1 included.  The ids are opaque: *)
(* the model numbers the rows 1..n.                                        *)
MaxLoad == 2

StoredTasks ==
    {[Task(id, c, InvalidDate, DefaultPriority) EXCEPT !.displayOrder = o] :
        id \in 1..MaxLoad, c \in Categories, o \in UnsetDisplayOrder..(MaxLoad - 1)}

LoadedLists ==
    {tasks \in UNION {[1..n -> StoredTasks] : n \in 0..MaxLoad} :
        \A i \in 1..Len(tasks) : tasks[i].id = i}

(***************************************************************************)
(* Spec: the calls of TaskModel, on tasks that differ in id and category.  *)
(***************************************************************************)
Next ==
    \/ \E task \in NewTasks({InvalidDate}) : Step(addTask(task))
    \/ \E id \in Ids : Step(removeTask(id))
    \/ \E rows \in MoveArgs : Step(moveTask(rows[1], rows[2]))
    \/ \E c \in Categories \cup {NoCategory} : Step(filterByCategory(c))
    \/ Step(clearFilter)
    \/ \E ascending \in BOOLEAN : Step(sortByDueDate(ascending))
    \/ \E ascending \in BOOLEAN : Step(sortByPriority(ascending))

Spec == Init /\ [][Next]_vars

(***************************************************************************)
(* SpecData: the calls that load and edit tasks, next to those that add,   *)
(* remove, filter and move them.  setTasks is called as the program calls  *)
(* it: once, by TaskController::loadTasks from the MainWindow constructor, *)
(* before any other call.                                                  *)
(***************************************************************************)
NextData ==
    \/ \E tasks \in LoadedLists : last.op = "TaskModel" /\ Single(setTasks(tasks))
    \/ \E task \in NewTasks({InvalidDate}) : Single(addTask(task))
    \/ \E id \in Ids : Single(removeTask(id))
    \/ \E row \in 0..(rowCount - 1), c \in Categories :
         Single(setData(row, c, "CategoryIdRole"))
    \/ \E c \in Categories : Single(filterByCategory(c))
    \/ \E rows \in MoveArgs : Single(moveTask(rows[1], rows[2]))

SpecData == Init /\ [][NextData]_vars

(***************************************************************************)
(* SpecMove: adding, filtering and moving, with moveTask called inside the *)
(* range QList::move is defined for (toRow < rowCount) or rejected.        *)
(***************************************************************************)
MoveArgsInList == {rows \in MoveArgs : rows[2] # rowCount}

NextMove ==
    \/ \E task \in NewTasks({InvalidDate}) : Single(addTask(task))
    \/ \E rows \in MoveArgsInList : Single(moveTaskRejected(rows[1], rows[2]))
    \/ \E rows \in MoveArgsInList : Single(moveTaskSameRow(rows[1], rows[2]))
    \/ \E rows \in MoveArgsInList : Single(moveTaskMoved(rows[1], rows[2]))
    \/ \E c \in Categories : Single(filterByCategory(c))

SpecMove == Init /\ [][NextMove]_vars

(***************************************************************************)
(* SpecSort: adding tasks with and without due dates, filtering on one     *)
(* category, sorting by due date.                                          *)
(***************************************************************************)
NextSort ==
    \/ \E task \in NewTasks(DueDates) : Single(addTask(task))
    \/ \E c \in {"X"} : Single(filterByCategory(c))
    \/ \E ascending \in BOOLEAN : Single(sortByDueDate(ascending))

SpecSort == Init /\ [][NextSort]_vars

(***************************************************************************)
(* SpecCtrl: TaskController::moveTask over the database, next to the calls *)
(* that build the list it moves in.                                        *)
(***************************************************************************)
MaxCtrlTasks == 2

NextCtrl ==
    \/ \E ok \in BOOLEAN : Single(DatabaseManager_initialize(ok))
    \/ \E task \in NewTasks({InvalidDate}) :
         Len(m_tasks) < MaxCtrlTasks /\ Single(addTask(task))
    \/ \E c \in {"X"} : Single(filterByCategory(c))
    \/ \E rows \in MoveArgsInList : Single(moveTaskRejected(rows[1], rows[2]))
    \/ \E rows \in MoveArgsInList : Single(moveTaskSameRow(rows[1], rows[2]))
    \/ \E rows \in MoveArgsInList :
         Single(TaskController_moveTaskRejected(rows[1], rows[2]))
    \/ \E rows \in MoveArgsInList :
         Single(TaskController_moveTaskSameRow(rows[1], rows[2]))
    \/ \E rows \in MoveArgsInList, failAt \in FailPoints(Len(m_tasks)) :
         Single(TaskController_moveTaskSaved(rows[1], rows[2], failAt))

SpecCtrl == Init /\ [][NextCtrl]_vars

(***************************************************************************)
(* SpecPrio: adding tasks of the priorities the editor offers, filtering   *)
(* on one category, sorting by priority.                                   *)
(***************************************************************************)
NewPriorityTasks ==
    {Task(id, c, InvalidDate, p) : id \in NewIds, c \in Categories, p \in Priorities}

NextPrio ==
    \/ \E task \in NewPriorityTasks : Single(addTask(task))
    \/ \E c \in {"X"} : Single(filterByCategory(c))
    \/ \E ascending \in BOOLEAN : Single(sortByPriority(ascending))

SpecPrio == Init /\ [][NextPrio]_vars

(***************************************************************************)
(* SpecList: adding, removing and filtering, the filter set and cleared    *)
(* in each way the model offers.                                           *)
(***************************************************************************)
NextList ==
    \/ \E task \in NewTasks({InvalidDate}) : Single(addTask(task))
    \/ \E id \in Ids : Single(removeTask(id))
    \/ \E c \in Categories \cup {NoCategory} : Single(filterByCategory(c))
    \/ Single(clearFilter)

SpecList == Init /\ [][NextList]_vars

(***************************************************************************)
(* SpecLoad: setTasks called at any time, on a model that may hold tasks   *)
(* and have a filter on, with tasks as the tasks table can hold them; the  *)
(* rows alternate between the two categories.                              *)
(***************************************************************************)
AlternatingLists ==
    {tasks \in LoadedLists :
        \A i \in 1..Len(tasks) : tasks[i].categoryId = (IF i % 2 = 1 THEN "X" ELSE "Y")}

NextLoad ==
    \/ \E tasks \in AlternatingLists : Single(setTasks(tasks))
    \/ \E task \in NewTasks({InvalidDate}) : Single(addTask(task))
    \/ \E c \in Categories : Single(filterByCategory(c))

SpecLoad == Init /\ [][NextLoad]_vars

(***************************************************************************)
(* SpecDb: the calls on the DatabaseManager, before and after initialize,  *)
(* over a database file that may hold rows from an earlier run.  The lists *)
(* given to saveTasks include lists with one id twice; the first task is   *)
(* saved both completed and not.                                           *)
(***************************************************************************)
MaxSave == 2

DbTasks ==
    {Task(id, "X", InvalidDate, DefaultPriority) : id \in 1..MaxSave}
        \cup {[Task(1, "X", InvalidDate, DefaultPriority) EXCEPT !.isCompleted = TRUE]}

ListsOf(tasks, n) == UNION {[1..k -> tasks] : k \in 0..n}

RowsOf(tasks) == [i \in 1..Len(tasks) |-> TaskToRow(tasks[i])]

InitDb ==
    /\ m_tasks = <<>>
    /\ m_filteredTasks = <<>>
    /\ m_isFiltered = FALSE
    /\ db_tasks \in {RowsOf(tasks) : tasks \in ListsOf(DbTasks, 1)}
    /\ m_initialized = FALSE
    /\ process = "running"
    /\ last = Call("DatabaseManager", 0, 0, "void")
    /\ hist = NoHist
    /\ filterArg = NoCategory
    /\ OthersInit

NextDb ==
    \/ \E ok \in BOOLEAN : Single(DatabaseManager_initialize(ok))
    \/ \E tasks \in ListsOf(DbTasks, MaxSave), failAt \in FailPoints(MaxSave) :
         Single(DatabaseManager_saveTasks(tasks, failAt))
    \/ Single(DatabaseManager_loadTasks)
    \/ \E task \in DbTasks, sqlOk \in BOOLEAN : Single(DatabaseManager_saveTask(task, sqlOk))
    \/ \E id \in 1..MaxSave, sqlOk \in BOOLEAN : Single(DatabaseManager_deleteTask(id, sqlOk))

SpecDb == InitDb /\ [][NextDb]_vars

(***************************************************************************)
(* SpecRoundTrip: saveTasks and loadTasks on tasks with distinct ids that  *)
(* differ in every field a row keeps.  createdDate is the clock's time at  *)
(* construction, on a full second or between two; a due date is unset or a *)
(* full second.                                                            *)
(***************************************************************************)
CreatedDates == {CreatedOnSecond, CreatedOnSecond + 1}

RoundTripTasks ==
    {[Task(id, "X", due, DefaultPriority)
        EXCEPT !.createdDate = created, !.isCompleted = done, !.displayOrder = order] :
        id \in 1..MaxSave, due \in {InvalidDate, 2 * TicksPerSecond},
        created \in CreatedDates, done \in BOOLEAN, order \in {UnsetDisplayOrder, 1}}

NextRoundTrip ==
    \/ \E ok \in BOOLEAN : Single(DatabaseManager_initialize(ok))
    \/ \E tasks \in {l \in ListsOf(RoundTripTasks, MaxSave) : ~HasRepeatedId(l)} :
         Single(DatabaseManager_saveTasks(tasks, 0))
    \/ Single(DatabaseManager_loadTasks)

SpecRoundTrip == Init /\ [][NextRoundTrip]_vars

(***************************************************************************)
(* SpecPersist: the controller's addTask, deleteTask and moveTask over a   *)
(* database whose statements can fail, with and without a filter on.  New  *)
(* tasks alternate between the two categories, a task is added while fewer *)
(* than MaxCtrlTasks ids are in use in the model and the table, and a      *)
(* saveTasks that fails does so on its last INSERT.                        *)
(***************************************************************************)
NextPersist ==
    \/ \E ok \in BOOLEAN : Single(DatabaseManager_initialize(ok))
    \/ \E title \in {NoTitle, "title"},
          c \in {IF Len(m_tasks) % 2 = 0 THEN "X" ELSE "Y"}, sqlOk \in BOOLEAN :
         /\ Cardinality(IdsOf(m_tasks) \cup IdsOf(db_tasks)) < MaxCtrlTasks
         /\ Single(TaskController_addTask(title, c, InvalidDate, DefaultPriority, sqlOk))
    \/ \E id \in Ids, sqlOk \in BOOLEAN : Single(TaskController_deleteTask(id, sqlOk))
    \/ \E c \in {"X"} : Single(filterByCategory(c))
    \/ \E rows \in MoveArgsInList, failAt \in {0, Len(m_tasks) + 1} :
         Single(TaskController_moveTaskSaved(rows[1], rows[2], failAt))

SpecPersist == Init /\ [][NextPersist]_vars

(***************************************************************************)
(* SpecEdit: the controller's updateTask and toggleTaskCompletion, with    *)
(* ids the model holds and ids it does not, on tasks the controller added, *)
(* with and without a filter on.  New tasks alternate between the two      *)
(* categories; an update gives a task the title, the description, the      *)
(* category, the due date and the priority of the edit.                    *)
(***************************************************************************)
EditedTitle == "edited"
EditedDescription == "notes"
EditedCategory == "Y"
EditedDueDate == TicksPerSecond
EditedPriority == 1

NextEdit ==
    \/ \E ok \in BOOLEAN : Single(DatabaseManager_initialize(ok))
    \/ \E c \in {IF Len(m_tasks) % 2 = 0 THEN "X" ELSE "Y"}, sqlOk \in BOOLEAN :
         /\ Cardinality(IdsOf(m_tasks) \cup IdsOf(db_tasks)) < MaxCtrlTasks
         /\ Single(TaskController_addTask(SomeTitle, c, InvalidDate, DefaultPriority, sqlOk))
    \/ \E c \in {"X", NoCategory} : Single(filterByCategory(c))
    \/ \E id \in Ids, title \in {NoTitle, EditedTitle}, sqlOk \in BOOLEAN :
         Single(TaskController_updateTask(id, title, EditedCategory, EditedDescription,
                                          EditedDueDate, EditedPriority, sqlOk))
    \/ \E id \in Ids, sqlOk \in BOOLEAN : Single(TaskController_toggleTaskCompletion(id, sqlOk))

SpecEdit == Init /\ [][NextEdit]_vars

(***************************************************************************)
(* SpecSweep: the controller's deleteCompletedTasks on tasks the           *)
(* controller added and marked completed, with and without a filter on,    *)
(* over a database whose statements can fail.  New tasks alternate between *)
(* the two categories, and a task is added while fewer than MaxCtrlTasks   *)
(* ids are in use in the model and the table and its new id is above them. *)
(***************************************************************************)
NextSweep ==
    \/ \E ok \in BOOLEAN : Single(DatabaseManager_initialize(ok))
    \/ \E c \in {IF Len(m_tasks) % 2 = 0 THEN "X" ELSE "Y"}, sqlOk \in BOOLEAN :
         /\ Cardinality(IdsOf(m_tasks) \cup IdsOf(db_tasks)) < MaxCtrlTasks
         /\ \A n \in NewIds, i \in IdsOf(m_tasks) \cup IdsOf(db_tasks) : i < n
         /\ Single(TaskController_addTask(SomeTitle, c, InvalidDate, DefaultPriority, sqlOk))
    \/ \E id \in IdsOf(m_tasks), sqlOk \in BOOLEAN :
         Single(TaskController_toggleTaskCompletion(id, sqlOk))
    \/ \E c \in {"X"} : Single(filterByCategory(c))
    \/ \E failAt \in 0..MaxCtrlTasks : Single(TaskController_deleteCompletedTasks(failAt))

SpecSweep == Init /\ [][NextSweep]_vars

(***************************************************************************)
(* SpecTimer: startTimer and stopTimer, for projects the ProjectModel has  *)
(* and ids it does not have, the empty id among them, while the clock      *)
(* moves on by ticks, over a database whose statements can fail.           *)
(***************************************************************************)
MaxEntries == 2
MaxTicks == 2

NextTimer ==
    \/ \E ok \in BOOLEAN : Single(DatabaseManager_initialize(ok))
    \/ \E id \in ProjectIds : Tracking(ProjectController_addProject(id))
    \/ \E id \in ProjectIds \cup {NoProject}, sqlOk \in BOOLEAN :
         /\ Len(m_timeEntries) < MaxEntries
         /\ Tracking(TimeTrackingController_startTimer(id, sqlOk))
    \/ \E sqlOk \in BOOLEAN :
         /\ Len(m_timeEntries) < MaxEntries
         /\ Tracking(TimeTrackingController_stopTimer(sqlOk))
    \/ \E t \in (now + 1)..(CreatedOnSecond + MaxTicks) : ClockTick(t)

SpecTimer == Init /\ [][NextTimer]_vars

(***************************************************************************)
(* SpecNotify: the timer's checks while the clock moves on, the tray icon  *)
(* is set and taken away, notifications are turned off and on, and tasks   *)
(* are added, marked completed or not, and given the other due date (no    *)
(* filter is on, so a row is a position of m_tasks).  A task is due        *)
(* on DueSecond or has no due date; the clock starts more than an hour     *)
(* before DueSecond and goes to the first second of the hour before it, to *)
(* one tick after it, and to a second after it.                            *)
(***************************************************************************)
DueSecond == (DueSoonSecs + 3) * TicksPerSecond

NotifyDueDates == {InvalidDate, DueSecond}

Instants == {DueSecond - DueSoonSecs * TicksPerSecond, DueSecond + 1,
             DueSecond + TicksPerSecond}

MaxNotifyTasks == 2

NextNotify ==
    \/ \E task \in NewTasks(NotifyDueDates) :
         /\ Len(m_tasks) < MaxNotifyTasks
         /\ task.categoryId = "X"
         /\ Single(addTask(task))
    \/ \E row \in 0..(rowCount - 1) :
         Single(setData(row, ~m_tasks[row + 1].isCompleted, "CompletedRole"))
    \/ \E row \in 0..(rowCount - 1), dueDate \in NotifyDueDates :
         /\ dueDate # m_tasks[row + 1].dueDate
         /\ Single(setData(row, dueDate, "DueDateRole"))
    \/ Notifying(NotificationController_start)
    \/ Notifying(NotificationController_stop)
    \/ Notifying(NotificationController_setTrayIcon(~m_trayIcon))
    \/ Notifying(SettingsManager_setEnableNotifications(~m_enableNotifications))
    \/ Notifying(NotificationController_onTimerTimeout)
    \/ \E t \in Instants : ClockTick(t)

SpecNotify == Init /\ [][NextNotify]_vars

(***************************************************************************)
(* SpecView: the calls that reorder the displayed list (moveTask with      *)
(* every pair of rows it accepts or rejects, the two sorts) and setData on *)
(* the priority, on tasks added with the first category and the second in  *)
(* turn and seen through the filter on the first.                          *)
(***************************************************************************)
LowPriority == 1

NewViewTasks ==
    {Task(id, c, InvalidDate, DefaultPriority) : id \in NewIds, c \in Categories}

NextView ==
    \/ \E task \in NewViewTasks :
         /\ task.categoryId = (IF Len(m_tasks) % 2 = 0 THEN "X" ELSE "Y")
         /\ Single(addTask(task))
    \/ Single(filterByCategory("X"))
    \/ \E row \in 0..(rowCount - 1) : Single(setData(row, LowPriority, "PriorityRole"))
    \/ \E rows \in MoveArgs : Single(moveTask(rows[1], rows[2]))
    \/ \E ascending \in BOOLEAN : Single(sortByDueDate(ascending))
    \/ \E ascending \in BOOLEAN : Single(sortByPriority(ascending))

SpecView == Init /\ [][NextView]_vars

(***************************************************************************)
(* SpecPlain: a model that starts empty and never has a filter on: tasks   *)
(* are added, removed, moved (with every pair of rows moveTask accepts or  *)
(* rejects), given a lower priority and sorted.                            *)
(***************************************************************************)
NextPlain ==
    \/ \E task \in NewViewTasks :
         /\ task.categoryId = "X"
         /\ Single(addTask(task))
    \/ \E id \in Ids : Single(removeTask(id))
    \/ \E row \in 0..(rowCount - 1) : Single(setData(row, LowPriority, "PriorityRole"))
    \/ \E rows \in MoveArgs : Single(moveTask(rows[1], rows[2]))
    \/ \E ascending \in BOOLEAN : Single(sortByDueDate(ascending))
    \/ \E ascending \in BOOLEAN : Single(sortByPriority(ascending))

SpecPlain == Init /\ [][NextPlain]_vars

(***************************************************************************)
(* SpecCtrlMove: the controller's moveTask, with every pair of rows a      *)
(* caller passes, on tasks the controller added, with and without a filter *)
(* on.  New tasks alternate between the two categories, and a saveTasks    *)
(* that fails does so on its last INSERT.                                  *)
(***************************************************************************)
NextCtrlMove ==
    \/ \E ok \in BOOLEAN : Single(DatabaseManager_initialize(ok))
    \/ \E c \in {IF Len(m_tasks) % 2 = 0 THEN "X" ELSE "Y"}, sqlOk \in BOOLEAN :
         Single(TaskController_addTask("title", c, InvalidDate, DefaultPriority, sqlOk))
    \/ \E c \in {"X"} : Single(filterByCategory(c))
    \/ \E rows \in MoveArgs, failAt \in {0, Len(m_tasks) + 1} :
         Single(TaskController_moveTask(rows[1], rows[2], failAt))

SpecCtrlMove == Init /\ [][NextCtrlMove]_vars

(***************************************************************************)
(* Properties.                                                             *)
(***************************************************************************)
IdSeq(s) == [i \in 1..Len(s) |-> s[i].id]

(* A task without its displayOrder. *)
Plain(t) == [t EXCEPT !.displayOrder = 0]

PlainSeq(s) == [i \in 1..Len(s) |-> Plain(s[i])]

RECURSIVE IsSubsequence(_, _)
IsSubsequence(a, b) ==
    IF a = <<>> THEN TRUE
    ELSE IF b = <<>> THEN FALSE
    ELSE IF Head(a) = Head(b) THEN IsSubsequence(Tail(a), Tail(b))
    ELSE IsSubsequence(a, Tail(b))

OrderOf(tasks, id) == tasks[FirstIndexOf(tasks, id)].displayOrder

(* C1: while the process runs as the code defines, the displayOrder values *)
(* of m_tasks are exactly 0..N-1, N = Len(m_tasks), each taken once.       *)
C1_DenseDisplayOrder ==
    process = "running" =>
        /\ {m_tasks[i].displayOrder : i \in 1..Len(m_tasks)} = 0..(Len(m_tasks) - 1)
        /\ \A i, j \in 1..Len(m_tasks) :
             i # j => m_tasks[i].displayOrder # m_tasks[j].displayOrder

(* C2: after filterByCategory("X"); moveTask(0, 1); clearFilter on tasks   *)
(* of categories X, Y, X, the two X tasks have changed places in m_tasks   *)
(* and the Y task is still between them, by position or by displayOrder.   *)
C2_Scenario ==
    /\ process = "running"
    /\ last.op = "clearFilter"
    /\ Len(hist.calls) = 2
    /\ IsFilterOn(hist.calls[1]) /\ hist.calls[1].c = "X"
    /\ hist.calls[2].x = 0 /\ hist.calls[2].y = 1
    /\ Len(hist.tasks) = 3
    /\ hist.tasks[1].categoryId = "X"
    /\ hist.tasks[2].categoryId = "Y"
    /\ hist.tasks[3].categoryId = "X"

C2_FilteredMoveSwaps ==
    C2_Scenario =>
        LET a == hist.tasks[1].id
            y == hist.tasks[2].id
            b == hist.tasks[3].id
        IN  \/ IdSeq(m_tasks) = <<b, y, a>>
            \/ /\ IdsOf(m_tasks) = {a, y, b}
               /\ OrderOf(m_tasks, b) < OrderOf(m_tasks, y)
               /\ OrderOf(m_tasks, y) < OrderOf(m_tasks, a)

(* C3: while a filter is on, m_filteredTasks is a subsequence of m_tasks   *)
(* by id and each of its tasks has the category of the last                *)
(* filterByCategory call.                                                  *)
C3_FilteredIsSubsequence ==
    (process = "running" /\ m_isFiltered) =>
        /\ IsSubsequence(IdSeq(m_filteredTasks), IdSeq(m_tasks))
        /\ \A i \in 1..Len(m_filteredTasks) : m_filteredTasks[i].categoryId = filterArg

InRange(fromRow, toRow, count) ==
    fromRow >= 0 /\ fromRow < count /\ toRow >= 0 /\ toRow <= count

(* C5: moveTask returns false and changes nothing when fromRow is outside  *)
(* [0, rowCount) or toRow is outside [0, rowCount]; for every other pair   *)
(* of rows it returns true.                                                *)
C5_MoveRejectsOutOfRange ==
    [][last'.op = "moveTask" =>
         IF InRange(last'.x, last'.y, rowCount)
         THEN last'.ret = "true"
         ELSE last'.ret = "false" /\ UNCHANGED model_vars]_vars

(* C6: moveTask(fromRow, rowCount) with fromRow a row of the active list   *)
(* returns true, the moved task is then the last of the active list, the   *)
(* other tasks keep their order and the length is the same.                *)
C6_MoveToEnd ==
    [][(last'.op = "moveTask" /\ InRange(last'.x, last'.y, rowCount) /\ last'.y = rowCount) =>
         /\ last'.ret = "true"
         /\ PlainSeq(ActiveList') =
              PlainSeq(Append(RemoveAt(ActiveList, last'.x), ActiveList[last'.x + 1]))]_vars

(* C7: after moveTask(fromRow, toRow) returned true with fromRow # toRow   *)
(* and toRow < rowCount, the task that was at fromRow is at toRow, the     *)
(* other tasks are in the order they were in, and the ids are the same.    *)
C7_MovePlacesTask ==
    [][(last'.op = "moveTask" /\ last'.ret = "true"
          /\ last'.x # last'.y /\ last'.y < rowCount) =>
         /\ Len(ActiveList') = Len(ActiveList)
         /\ Plain(ActiveList'[last'.y + 1]) = Plain(ActiveList[last'.x + 1])
         /\ PlainSeq(RemoveAt(ActiveList', last'.y)) = PlainSeq(RemoveAt(ActiveList, last'.x))
         /\ IdsOf(ActiveList') = IdsOf(ActiveList)]_vars

C7_Witness ==
    /\ last.op = "moveTask" /\ last.ret = "true"
    /\ last.x = 0 /\ last.y = 2 /\ rowCount = 3
    /\ m_isFiltered /\ Len(m_tasks) > 3 - 1

(* C8: moveTask(a, b) and then moveTask(b, a), a # b rows of the active    *)
(* list, leave the active list in its first order with its first           *)
(* displayOrder values.                                                    *)
RoundTripDone ==
    /\ process = "running"
    /\ IsMoved(last)
    /\ Len(hist.calls) = 1 /\ IsMoved(hist.calls[1])
    /\ hist.calls[1].x = last.y /\ hist.calls[1].y = last.x
    /\ last.x < rowCount /\ last.y < rowCount

C8_MoveRoundTrip == RoundTripDone => ActiveList = hist.active

(* C9: moveTask(k, k), k a row of the active list, returns true and leaves *)
(* both lists and every displayOrder as they are; through the controller   *)
(* it also makes no call to the database.                                  *)
C9_MoveSameRowChangesNothing ==
    [][(last'.op \in {"moveTask", "TaskController::moveTask"}
          /\ last'.x = last'.y /\ last'.x >= 0 /\ last'.x < rowCount) =>
         /\ last'.ret = "true"
         /\ last'.dbCalls = 0
         /\ UNCHANGED <<m_tasks, m_filteredTasks, m_isFiltered, db_tasks>>]_vars

C9_Witness ==
    /\ last.op = "TaskController::moveTask" /\ last.ret = "true"
    /\ last.x = 1 /\ last.y = 1
    /\ m_initialized
    /\ db_tasks # <<>>
    /\ IdSeq(db_tasks) # IdSeq(m_tasks)

(* C10: after sortByDueDate the tasks of the active list with a due date   *)
(* come before those without, the due dates are non-decreasing (ascending) *)
(* or non-increasing (descending), and the active list holds the tasks it  *)
(* held before.                                                            *)
Occurrences(s, v) == Cardinality({i \in 1..Len(s) : s[i] = v})

IsRearrangement(s, t) ==
    /\ Len(s) = Len(t)
    /\ \A i \in 1..Len(s) : Occurrences(s, s[i]) = Occurrences(t, s[i])

DueDateSorted(s, ascending) ==
    \A i, j \in 1..Len(s) :
        i < j =>
            /\ IsValidDate(s[j].dueDate) => IsValidDate(s[i].dueDate)
            /\ (IsValidDate(s[i].dueDate) /\ IsValidDate(s[j].dueDate)) =>
                 IF ascending THEN s[i].dueDate <= s[j].dueDate
                 ELSE s[i].dueDate >= s[j].dueDate

C10_SortByDueDate ==
    [][last'.op = "sortByDueDate" =>
         /\ DueDateSorted(ActiveList', last'.x = 1)
         /\ IsRearrangement(PlainSeq(ActiveList), PlainSeq(ActiveList'))]_vars

C10_Witness ==
    /\ last.op = "sortByDueDate" /\ last.x = 0
    /\ m_isFiltered
    /\ Len(m_filteredTasks) = 3
    /\ ~IsValidDate(m_filteredTasks[3].dueDate)
    /\ m_filteredTasks[1].dueDate > m_filteredTasks[2].dueDate
    /\ IsValidDate(m_filteredTasks[2].dueDate)
    /\ m_filteredTasks[1].id > m_filteredTasks[2].id

(* C11: after sortByPriority the priorities along the active list are     *)
(* non-decreasing (ascending) or non-increasing (descending), the active   *)
(* list holds the tasks it held before, and the task at row i has          *)
(* displayOrder i.                                                         *)
PrioritySorted(s, ascending) ==
    \A i, j \in 1..Len(s) :
        i < j => IF ascending THEN s[i].priority <= s[j].priority
                 ELSE s[i].priority >= s[j].priority

C11_SortByPriority ==
    [][last'.op = "sortByPriority" =>
         /\ PrioritySorted(ActiveList', last'.x = 1)
         /\ IsRearrangement(PlainSeq(ActiveList), PlainSeq(ActiveList'))
         /\ \A i \in 1..Len(ActiveList') : ActiveList'[i].displayOrder = i - 1]_vars

C11_Witness ==
    /\ last.op = "sortByPriority" /\ last.x = 0
    /\ m_isFiltered
    /\ Len(m_filteredTasks) = 3
    /\ m_filteredTasks[1].priority > m_filteredTasks[3].priority
    /\ m_filteredTasks[1].id > m_filteredTasks[3].id

(* C12: addTask appends the task to m_tasks with displayOrder one above    *)
(* the largest displayOrder of m_tasks (0 when m_tasks is empty); with a   *)
(* filter on category c on, it appends the task to m_filteredTasks when    *)
(* the task's category is c and leaves m_filteredTasks alone when not.     *)
MaxDisplayOrder(tasks) ==
    CHOOSE m \in {tasks[i].displayOrder : i \in 1..Len(tasks)} :
        \A i \in 1..Len(tasks) : tasks[i].displayOrder <= m

C12_AddTask ==
    [][last'.op = "addTask" =>
         LET added == m_tasks'[Len(m_tasks')]
         IN  /\ Len(m_tasks') = Len(m_tasks) + 1
             /\ SubSeq(m_tasks', 1, Len(m_tasks)) = m_tasks
             /\ added.id = last'.x
             /\ added.displayOrder =
                  IF m_tasks = <<>> THEN 0 ELSE MaxDisplayOrder(m_tasks) + 1
             /\ m_isFiltered =>
                  m_filteredTasks' = IF added.categoryId = filterArg
                                     THEN Append(m_filteredTasks, added)
                                     ELSE m_filteredTasks]_vars

(* C13: removeTask(id) returns false and changes nothing when m_tasks has  *)
(* no task with this id; otherwise it returns true, the id is then in      *)
(* neither m_tasks nor the displayed list, and the other tasks are in the  *)
(* order they were in, in both.                                            *)
WithoutId(ids, id) == SelectSeq(ids, LAMBDA x : x # id)

C13_RemoveTask ==
    [][last'.op = "removeTask" =>
         IF last'.x \notin IdsOf(m_tasks)
         THEN last'.ret = "false" /\ UNCHANGED model_vars
         ELSE /\ last'.ret = "true"
              /\ last'.x \notin IdsOf(m_tasks')
              /\ last'.x \notin IdsOf(ActiveList')
              /\ IdSeq(m_tasks') = WithoutId(IdSeq(m_tasks), last'.x)
              /\ IdSeq(ActiveList') = WithoutId(IdSeq(ActiveList), last'.x)]_vars

C13_Witness ==
    /\ last.op = "removeTask" /\ last.ret = "true"
    /\ m_isFiltered
    /\ Len(m_tasks) = 2 /\ Len(m_filteredTasks) = 1
    /\ last.x < m_filteredTasks[1].id

(* C14: after setTasks(tasks) no filter is on and m_tasks holds the given  *)
(* tasks in the given order; when one of them has displayOrder < 0 each    *)
(* task's displayOrder is its row, otherwise each displayOrder is as given.*)
C14_SetTasks ==
    [][last'.op = "setTasks" =>
         LET given == last'.tasks
         IN  /\ ~m_isFiltered'
             /\ ActiveList' = m_tasks'
             /\ PlainSeq(m_tasks') = PlainSeq(given)
             /\ IF \E i \in 1..Len(given) : given[i].displayOrder < 0
                THEN \A i \in 1..Len(m_tasks') : m_tasks'[i].displayOrder = i - 1
                ELSE m_tasks' = given]_vars

C14_Witness ==
    /\ last.op = "setTasks"
    /\ m_filteredTasks # <<>>
    /\ Len(m_tasks) = 2
    /\ m_tasks[1].displayOrder = 1 /\ m_tasks[2].displayOrder = 1

(* C15: filterByCategory(c), c not empty, turns the filter on and makes    *)
(* m_filteredTasks the tasks of m_tasks with category c, in the order of   *)
(* m_tasks.  filterByCategory("") and clearFilter have one and the same    *)
(* effect: the filter is off, m_tasks is as it was and is the displayed    *)
(* list, and nothing else changes.                                         *)
C15_FilterByCategory ==
    [][/\ (last'.op = "filterByCategory" /\ last'.c # NoCategory) =>
            /\ m_isFiltered'
            /\ m_filteredTasks' = SelectSeq(m_tasks, LAMBDA t : t.categoryId = last'.c)
            /\ ActiveList' = m_filteredTasks'
            /\ m_tasks' = m_tasks
       /\ (\/ last'.op = "clearFilter"
           \/ last'.op = "filterByCategory" /\ last'.c = NoCategory) =>
            /\ ~m_isFiltered'
            /\ m_tasks' = m_tasks
            /\ ActiveList' = m_tasks
            /\ m_filteredTasks' = m_filteredTasks]_vars

C15_Witness ==
    /\ last.op = "filterByCategory" /\ last.c = "Y"
    /\ Len(m_tasks) = 3 /\ Len(m_filteredTasks) = 2
    /\ m_tasks[2].categoryId = "X"

C17_SaveLoadRoundTrip ==
    [][(/\ last.op = "saveTasks" /\ last.ret = "true"
        /\ ~HasRepeatedId(last.tasks)
        /\ last'.op = "loadTasks") =>
         /\ Len(last'.tasks) = Len(last.tasks)
         /\ \A i \in 1..Len(last.tasks) :
              \E j \in 1..Len(last'.tasks) : last'.tasks[j] = last.tasks[i]
         /\ \A j \in 1..Len(last'.tasks) :
              ~IsValidDate(last.tasks[FirstIndexOf(last.tasks, last'.tasks[j].id)].dueDate)
                  => ~IsValidDate(last'.tasks[j].dueDate)]_vars

(* C18: while m_initialized is false, saveTasks, saveTask and deleteTask   *)
(* return false, loadTasks returns the empty list, and the table is left   *)
(* as it is; loadTasks on an initialized database with an empty table      *)
(* returns the empty list.                                                 *)
C18_UninitializedFails ==
    [][/\ (~m_initialized /\ last'.op \in {"saveTasks", "saveTask", "deleteTask"}) =>
            last'.ret = "false" /\ db_tasks' = db_tasks
       /\ (~m_initialized /\ last'.op = "loadTasks") =>
            last'.tasks = <<>> /\ db_tasks' = db_tasks
       /\ (m_initialized /\ db_tasks = <<>> /\ last'.op = "loadTasks") =>
            last'.tasks = <<>> /\ db_tasks' = db_tasks]_vars

C18_Witness ==
    /\ last.op = "loadTasks"
    /\ ~m_initialized
    /\ db_tasks # <<>>

(* C19: when the DatabaseManager call made by the controller's addTask,   *)
(* deleteTask or moveTask returns false, the controller returns false, the *)
(* table is as it was, and the model keeps the change: the task is in      *)
(* m_tasks, is gone from m_tasks, or is at the row it was moved to.        *)
C19_NoRollbackOnFailedSave ==
    [][(last'.dbRet = "false" /\ process' = "running") =>
         /\ last'.ret = "false"
         /\ db_tasks' = db_tasks
         /\ last'.op = "TaskController::addTask" =>
              /\ Len(m_tasks') = Len(m_tasks) + 1
              /\ m_tasks'[Len(m_tasks')].id = last'.x
              /\ last'.x \notin IdsOf(db_tasks')
         /\ last'.op = "TaskController::deleteTask" =>
              /\ last'.x \in IdsOf(m_tasks)
              /\ last'.x \notin IdsOf(m_tasks')
              /\ Len(m_tasks') = Len(m_tasks) - 1
         /\ last'.op = "TaskController::moveTask" =>
              /\ IdSeq(ActiveList') = IdSeq(QListMove(ActiveList, last'.x, last'.y))
              /\ ActiveList' # ActiveList]_vars

C19_Witness ==
    /\ last.op = "TaskController::deleteTask" /\ last.dbRet = "false"
    /\ m_initialized
    /\ last.x \in IdsOf(db_tasks)
    /\ m_tasks # <<>>

(* C20: after the controller's moveTask(fromRow, toRow), fromRow # toRow,  *)
(* returned true, the table holds one row for each task of m_tasks and no  *)
(* other, each with the displayOrder the task has in m_tasks, a filter on  *)
(* or not.                                                                 *)
C20_MoveSavesAllTasks ==
    [][(last'.op = "TaskController::moveTask" /\ last'.ret = "true"
          /\ last'.x # last'.y) =>
         /\ Len(db_tasks') = Len(m_tasks')
         /\ \A i \in 1..Len(m_tasks') :
              \E k \in 1..Len(db_tasks') :
                  /\ db_tasks'[k].id = m_tasks'[i].id
                  /\ db_tasks'[k].display_order = m_tasks'[i].displayOrder]_vars

C20_Witness ==
    /\ last.op = "TaskController::moveTask" /\ last.ret = "true"
    /\ last.x # last.y
    /\ process = "running"
    /\ m_isFiltered
    /\ Len(m_tasks) = 3 /\ Len(m_filteredTasks) = 2

(***************************************************************************)
(* Claims about TaskController::updateTask and toggleTaskCompletion.       *)
(***************************************************************************)
IsEdit(call) ==
    call.op \in {"TaskController::updateTask", "TaskController::toggleTaskCompletion"}

(* C21: updateTask(id, ...) and toggleTaskCompletion(id) with an id that   *)
(* no task of m_tasks has return false, leave m_tasks and m_filteredTasks  *)
(* as they are and leave the tasks table as it is.                         *)
C21_EditUnknownId ==
    [][(IsEdit(last') /\ last'.x \notin IdsOf(m_tasks)) =>
         /\ last'.ret = "false"
         /\ UNCHANGED model_vars
         /\ db_tasks' = db_tasks]_vars

RowOf(rows, id) == rows[FirstIndexOf(rows, id)]

TaskOf(tasks, id) == tasks[FirstIndexOf(tasks, id)]

(* The fields of a task that updateTask and toggleTaskCompletion write, as *)
(* a row keeps them.                                                       *)
EditedFields(row) ==
    [title |-> row.title, description |-> row.description, category_id |-> row.category_id,
     due_date |-> row.due_date, priority |-> row.priority, completed |-> row.completed]

(* C22: after updateTask or toggleTaskCompletion returned true for an id   *)
(* that a task of m_tasks has, the task of m_tasks with the id and the row *)
(* with the id have the same title, description, categoryId, dueDate,      *)
(* priority and completed, filter on or off, task displayed or not.        *)
C22_EditReachesModelAndStore ==
    [][(IsEdit(last') /\ last'.ret = "true" /\ last'.x \in IdsOf(m_tasks)) =>
         /\ last'.x \in IdsOf(m_tasks')
         /\ last'.x \in IdsOf(db_tasks')
         /\ EditedFields(TaskToRow(TaskOf(m_tasks', last'.x)))
              = EditedFields(RowOf(db_tasks', last'.x))]_vars

(***************************************************************************)
(* Claims about TaskController::deleteCompletedTasks.                      *)
(***************************************************************************)
NoneCompleted(tasks) == \A i \in 1..Len(tasks) : ~tasks[i].isCompleted

NoRowCompleted(rows) == \A i \in 1..Len(rows) : rows[i].completed = 0

HasProject(id) == \E i \in 1..Len(m_projects) : m_projects[i] = id

(* C24: startTimer(projectId) with an id that no project of the            *)
(* ProjectModel has returns false and starts no session: afterwards        *)
(* isTimerRunning is false and the current project id is empty.            *)
C24_StartTimerUnknownProject ==
    [][(last'.op = "startTimer" /\ ~HasProject(last'.c)) =>
         /\ last'.ret = "false"
         /\ ~isTimerRunning'
         /\ m_currentProjectId' = NoProject]_vars

(* C25: startTimer(p) called while a timer runs for q puts exactly one     *)
(* time entry, for q, in front of the entries and then tracks p; startTimer *)
(* with no timer running adds no entry; stopTimer that returns true puts   *)
(* exactly one entry, for the project tracked, in front of the entries and *)
(* leaves no timer running; stopTimer with no timer running returns false  *)
(* and adds no entry.  One project is tracked at a time: the one of the    *)
(* last startTimer.                                                        *)
C25_OneSessionAtATime ==
    [][/\ last'.op = "startTimer" =>
            /\ IF isTimerRunning
               THEN /\ Len(m_timeEntries') = Len(m_timeEntries) + 1
                    /\ Tail(m_timeEntries') = m_timeEntries
                    /\ Head(m_timeEntries').projectId = m_currentProjectId
                    /\ Head(m_timeEntries').startTime = m_startTime
                    /\ Head(m_timeEntries').endTime = now
               ELSE m_timeEntries' = m_timeEntries
            /\ (last'.ret = "true" /\ last'.c # NoProject) =>
                 /\ isTimerRunning'
                 /\ m_currentProjectId' = last'.c
                 /\ m_startTime' = now
       /\ last'.op = "stopTimer" =>
            IF isTimerRunning
            THEN /\ last'.ret = "true"
                 /\ Len(m_timeEntries') = Len(m_timeEntries) + 1
                 /\ Tail(m_timeEntries') = m_timeEntries
                 /\ Head(m_timeEntries').projectId = m_currentProjectId
                 /\ ~isTimerRunning' /\ ~m_timerActive'
                 /\ m_currentProjectId' = NoProject
            ELSE /\ last'.ret = "false"
                 /\ m_timeEntries' = m_timeEntries
                 /\ db_timeEntries' = db_timeEntries]_vars

C25_Witness ==
    /\ last.op = "startTimer" /\ last.c = "p"
    /\ isTimerRunning
    /\ Len(m_timeEntries) = 2
    /\ m_timeEntries[1].projectId = "q" /\ m_timeEntries[2].projectId = "p"
    /\ m_timeEntries[1].duration = 1

(***************************************************************************)
(* Claims about NotificationController.                                    *)
(***************************************************************************)
TimesShown(title, id) ==
    Cardinality({k \in 1..Len(shown) : shown[k] = Message(title, id)})

NewMessages == {shown'[k] : k \in (Len(shown) + 1)..Len(shown')}

(* C26: over the timer's checks each task id gets at most one "Task Due    *)
(* Soon" and at most one "Task Overdue" message; a message is shown only   *)
(* with notifications enabled and a tray icon set, and only for a task of  *)
(* m_tasks that is not completed and has a due date.                       *)
C26_NotifiedOnce ==
    /\ [](\A id \in Ids : /\ TimesShown("Task Due Soon", id) <= 1
                           /\ TimesShown("Task Overdue", id) <= 1)
    /\ [][/\ SubSeq(shown', 1, Len(shown)) = shown
          /\ \A message \in NewMessages :
               /\ m_enableNotifications /\ m_trayIcon
               /\ last'.op = "checkForDueTasks"
               /\ \E i \in 1..Len(m_tasks) :
                    /\ m_tasks[i].id = message.id
                    /\ ~m_tasks[i].isCompleted
                    /\ IsValidDate(m_tasks[i].dueDate)]_vars

C26_Witness ==
    /\ last.op = "checkForDueTasks"
    /\ Len(shown) = 3
    /\ TimesShown("Task Due Soon", 1) = 1 /\ TimesShown("Task Overdue", 1) = 1
    /\ m_notifiedTaskIds = {NotifiedKey(1, ""), NotifiedKey(1, "_overdue"),
                             NotifiedKey(2, "_overdue")}
    /\ hist = NoHist

(***************************************************************************)
(* Claims about the filtered view and the authoritative list.              *)
(***************************************************************************)
UniqueIds(tasks) ==
    \A i, j \in 1..Len(tasks) : i # j => tasks[i].id # tasks[j].id

(* C27: while a filter is on and no id occurs twice, each task of          *)
(* m_filteredTasks is equal in every field, displayOrder included, to the  *)
(* task of m_tasks with the same id.                                       *)
C27_FilteredEqualsAuthoritative ==
    (m_isFiltered /\ UniqueIds(m_tasks) /\ UniqueIds(m_filteredTasks)) =>
        \A i \in 1..Len(m_filteredTasks) :
            \E j \in 1..Len(m_tasks) : m_tasks[j] = m_filteredTasks[i]

(* C28: while a filter is on, moveTask, sortByDueDate and sortByPriority   *)
(* leave every task of m_tasks at its position; a task whose id is not in  *)
(* m_filteredTasks is left as it was, and a task whose id is in it changes *)
(* in its displayOrder at most.                                            *)
Reorders == {"moveTask", "sortByDueDate", "sortByPriority"}

C28_ReorderWritesDisplayOrderOnly ==
    [][(m_isFiltered /\ last'.op \in Reorders) =>
         /\ Len(m_tasks') = Len(m_tasks)
         /\ \A i \in 1..Len(m_tasks) :
              IF m_tasks[i].id \in IdsOf(m_filteredTasks)
              THEN [m_tasks'[i] EXCEPT !.displayOrder = m_tasks[i].displayOrder] = m_tasks[i]
              ELSE m_tasks'[i] = m_tasks[i]]_vars

C28_Witness ==
    /\ m_isFiltered
    /\ last.op = "sortByPriority"
    /\ IdSeq(m_tasks) = <<1, 2, 3>>
    /\ IdSeq(m_filteredTasks) = <<3, 1>>
    /\ m_tasks[1].displayOrder = 1 /\ m_tasks[2].displayOrder = 1
    /\ m_tasks[3].displayOrder = 0

(* C29: in a model that started empty, never had a filter on and never had *)
(* setData called on DisplayOrderRole, the task at position i of m_tasks   *)
(* (counted from 0) has displayOrder i after every call.                   *)
C29_DisplayOrderIsPosition ==
    ~m_isFiltered => \A i \in 1..Len(m_tasks) : m_tasks[i].displayOrder = i - 1

C29_Witness ==
    /\ last.op = "removeTask" /\ last.ret = "true"
    /\ IdSeq(m_tasks) = <<3, 1>>
    /\ m_tasks[1].priority # m_tasks[2].priority

(* C30: when TaskController::addTask returns true, the tasks table holds a *)
(* row with the new task's id whose display_order is the displayOrder of   *)
(* the task of m_tasks with that id, a value of 0 or more.                 *)
C30_AddTaskStoresDisplayOrder ==
    [][(last'.op = "TaskController::addTask" /\ last'.ret = "true") =>
         \E k \in 1..Len(db_tasks'), j \in 1..Len(m_tasks') :
             /\ db_tasks'[k].id = last'.x
             /\ m_tasks'[j].id = last'.x
             /\ db_tasks'[k].display_order = m_tasks'[j].displayOrder
             /\ db_tasks'[k].display_order >= 0]_vars

====
